---- MODULE Spec2Model ----
(***************************************************************************)
(* Context-GEBC / PDVC: the evaluation-time reranking and selection        *)
(* pipeline and the schema conversions (eval_utils.py), the per-layer      *)
(* prediction orchestration of the model and PostProcess (pdvc/pdvc.py),   *)
(* as state machines.  Each has its own specification over the same        *)
(* variables: Spec (evaluate), SpecRerank, SpecSelect, SpecConv, SpecPred  *)
(* (PDVC.forward), SpecPost (PostProcess.forward), SpecCap (the flattened  *)
(* match indices of caption_prediction) and SpecBuild (build).             *)
(*                                                                         *)
(* Scores are floats in the program.  Here they are exact rationals: a     *)
(* score is an integer number of units, and a joint score is a pair        *)
(* <<numerator, denominator>> with a positive denominator.                 *)
(***************************************************************************)
EXTENDS Integers, Sequences, FiniteSets, TLC

VARIABLES
    pc,        \* position of the running program
    opt,       \* configuration / call arguments of the running program
    loader,    \* evaluate: the videos the loader has still to yield
    out_json,  \* evaluate: out_json['results'], video key -> list of events;
               \* conversions: the file the second conversion wrote
    file_src,  \* contents of the file at dvc_json_path / p_src / the path
               \* given to the first conversion
    file_dst,  \* contents of the file reranking / selecting / the first
               \* conversion wrote
    err,       \* the exception that ended the run, or "none"
    l_id,      \* orchestration: the layer index of the running loop;
               \* caption_prediction: the video index i of its loop
    log,       \* orchestration: the per-layer steps taken so far;
               \* evaluate: the count logits the model gave for each video
    loss,      \* orchestration: the entries the orchestration put in loss
    out,       \* orchestration: the parts of the out dict it assembles, the
               \* text-embedding list and what each layer computed;
               \* PostProcess: the outputs dict it is given;
               \* caption_prediction: feat_bigids, cap_bigids and the offsets;
               \* build: weight_dict
    pp_results \* PostProcess: the list of per-video results it returns

vars == <<pc, opt, loader, out_json, file_src, file_dst, err, l_id, log, loss, out,
          pp_results>>

\* ------------------------------------------------------------------ bounds
MaxEvents == 3      \* events in one prediction file
MaxQueries == 2     \* N_q, queries PostProcess returns for a video
MaxLayers == 3      \* L, decoder layers

\* --------------------------------------------------------------- constants
EpsInv == 100000        \* 1 / 1e-5, the epsilon of the sentence-score denominator
AlphaDen == 10          \* alpha is given in tenths: 3 is alpha = 0.3
EvalTemperature == 2    \* temperature=2.0 in evaluate's call of reranking
ScoreThreshold == 0     \* score_threshold=0, evaluate's default

Videos == <<"v_a", "v_b">>
VideoSet == {Videos[i] : i \in 1..Len(Videos)}
Timestamps == {<<0, 1>>, <<1, 2>>}
ProposalScores == {1, 2}
Sentences == {<<>>, <<"a">>}
SentenceScores == {-1}
ClScores == {1}
EventCounts == {1, 2}
AlphaTenths == {0, 3}
ClWeights == {1}
Temperatures == {0, EvalTemperature}

NoFile == [nofile |-> TRUE]

\* ------------------------------------------------------------- arithmetic
RECURSIVE Pow(_, _)
Pow(b, e) == IF e = 0 THEN 1 ELSE b * Pow(b, e - 1)

\* a/b < c/d for b, d > 0, by continued fractions (no product can overflow)
RECURSIVE FracLT(_, _, _, _)
FracLT(a, b, c, d) ==
    LET qa == a \div b
        qc == c \div d
        ra == a % b
        rc == c % d
    IN  IF qa # qc THEN qa < qc
        ELSE IF rc = 0 THEN FALSE
        ELSE IF ra = 0 THEN TRUE
        ELSE FracLT(d, rc, b, ra)

\* Python's comparison of two-element lists
ListLT(s, t) == s[1] < t[1] \/ (s[1] = t[1] /\ s[2] < t[2])

\* sorted(): a stable sort by insertion; before[i, j] says that the key of s[i]
\* orders strictly before the key of s[j], and elements neither of which is
\* before the other keep the order they have in s
StableSort(s, before) ==
    LET Insert(t, x) ==
            LET later == {p \in 1..Len(t) : before[x, t[p]]}
                at == IF later = {} THEN Len(t) + 1
                      ELSE CHOOSE p \in later : \A q \in later : p <= q
            IN  SubSeq(t, 1, at - 1) \o <<x>> \o SubSeq(t, at, Len(t))
        order[i \in 0..Len(s)] == IF i = 0 THEN <<>> ELSE Insert(order[i - 1], i)
    IN  [p \in 1..Len(s) |-> s[order[Len(s)][p]]]

\* v[:n] for n >= 0
Prefix(v, n) == SubSeq(v, 1, IF n < Len(v) THEN n ELSE Len(v))

\* -------------------------------------------------------------- reranking
\* mutant: the sentence score is not normalised by the sentence's length
JointScore_NoLengthNorm(p, alpha, cl_score_weight, temperature) ==
    LET den == EpsInv + 1
    IN  << alpha * p.sentence_score * EpsInv
             + AlphaDen * (p.proposal_score + cl_score_weight * p.cl_score) * den,
           AlphaDen * den >>

\* alpha * sentence_score / (len(words)**temperature + 1e-5)
\*   + proposal_score + cl_score_weight * cl_score
JointScore(p, alpha, cl_score_weight, temperature) ==
    LET den == Pow(Len(p.sentence), temperature) * EpsInv + 1
    IN  << alpha * p.sentence_score * EpsInv
             + AlphaDen * (p.proposal_score + cl_score_weight * p.cl_score) * den,
           AlphaDen * den >>

\* p['joint_score'] = joint_score[i], for every event of the list
WithJoint(v, alpha, cl_score_weight, temperature) ==
    [i \in 1..Len(v) |->
        [f \in DOMAIN v[i] \cup {"joint_score"} |->
            IF f = "joint_score"
            THEN JointScore(v[i], alpha, cl_score_weight, temperature)
            ELSE v[i][f]]]

JointGT(x, y) ==
    FracLT(y.joint_score[1], y.joint_score[2], x.joint_score[1], x.joint_score[2])

\* mutant: the descending sort by joint score is left out
ByJointDesc_NoSort(v) == v

ByJointDesc(v) ==
    StableSort(v, [i \in 1..Len(v), j \in 1..Len(v) |-> JointGT(v[i], v[j])])

TimestampLT(x, y) == ListLT(x.timestamp, y.timestamp)

\* mutant: the final sort by timestamp is left out
ByTimestamp_NoSort(v) == v

ByTimestamp(v) ==
    StableSort(v, [i \in 1..Len(v), j \in 1..Len(v) |-> TimestampLT(v[i], v[j])])

\* one iteration of reranking's loop, for a non-empty list v
RerankVideo(v, alpha, cl_score_weight, temperature) ==
    LET scored == ByJointDesc(WithJoint(v, alpha, cl_score_weight, temperature))
        topN == scored[1].pred_event_count
    IN  ByTimestamp(Prefix(scored, topN))

\* reranking(p_src, ...): v[0] of an empty list raises IndexError and no file
\* is written
reranking(d, alpha, cl_score_weight, temperature) ==
    IF \E k \in DOMAIN d : d[k] = <<>>
    THEN [err |-> "IndexError", results |-> NoFile]
    ELSE [err |-> "none",
          results |-> [k \in DOMAIN d |->
                          RerankVideo(d[k], alpha, cl_score_weight, temperature)]]

\* x[i] of a Python sequence of length n: the position (from 0) it reads, or
\* -1 when it raises IndexError
PyIndex(i, n) ==
    IF 0 <= i /\ i < n THEN i
    ELSE IF i < 0 /\ i + n >= 0 THEN i + n
    ELSE -1

\* mutant: the events whose index is listed, in the order of the file
selecting_InFileOrder(d, selector_indices) ==
    IF \E k \in DOMAIN d : k \notin DOMAIN selector_indices
    THEN [err |-> "KeyError", results |-> NoFile]
    ELSE IF \E k \in DOMAIN d : \E j \in 1..Len(selector_indices[k]) :
                PyIndex(selector_indices[k][j], Len(d[k])) = -1
    THEN [err |-> "IndexError", results |-> NoFile]
    ELSE [err |-> "none",
          results |-> [k \in DOMAIN d |->
                          LET listed == {PyIndex(selector_indices[k][j], Len(d[k])) :
                                            j \in 1..Len(selector_indices[k])}
                              f[n \in 0..Len(d[k])] ==
                                  IF n = 0 THEN <<>>
                                  ELSE IF n - 1 \in listed THEN Append(f[n - 1], d[k][n])
                                  ELSE f[n - 1]
                          IN  f[Len(d[k])]]]

\* selecting(p_src, selector_indices): selector_indices[k] of a missing key
\* raises KeyError, v[pid] out of range raises IndexError, and then no file is
\* written
selecting(d, selector_indices) ==
    IF \E k \in DOMAIN d : k \notin DOMAIN selector_indices
    THEN [err |-> "KeyError", results |-> NoFile]
    ELSE IF \E k \in DOMAIN d : \E j \in 1..Len(selector_indices[k]) :
                PyIndex(selector_indices[k][j], Len(d[k])) = -1
    THEN [err |-> "IndexError", results |-> NoFile]
    ELSE [err |-> "none",
          results |-> [k \in DOMAIN d |->
                          [j \in 1..Len(selector_indices[k]) |->
                              d[k][PyIndex(selector_indices[k][j], Len(d[k])) + 1]]]]

\* ------------------------------------------------------- prediction files
Event(K) ==
    [timestamp : Timestamps, sentence : Sentences, sentence_score : SentenceScores,
     proposal_score : ProposalScores, cl_score : ClScores, pred_event_count : {K}]

\* the lists of exactly n events evaluate can write for one video: every event
\* of a video carries that video's pred_seq_len
VideoLists(n) == UNION {[1..n -> Event(K)] : K \in EventCounts}

\* what a file holds for one video: a list of exactly n events, or (n = 0)
\* nothing at all when the file does not have the video
Slots(n) ==
    {[present |-> TRUE, list |-> v] : v \in VideoLists(n)}
        \cup (IF n = 0 THEN {[present |-> FALSE, list |-> <<>>]} ELSE {})

\* the 'results' mapping of the file whose slot for Videos[i] is s[i]
FileOf(s) ==
    [k \in {Videos[i] : i \in {j \in 1..Len(Videos) : s[j].present}} |->
        s[CHOOSE i \in 1..Len(Videos) : Videos[i] = k].list]

\* ------------------------------------------------- specification: reranking
NoOrch == /\ l_id = 0 /\ log = <<>> /\ loss = <<>> /\ out = <<>> /\ pp_results = <<>>

InitRerank ==
    /\ pc = "rerank"
    /\ opt \in [alpha : AlphaTenths, cl_score_weight : ClWeights,
                temperature : Temperatures]
    /\ loader = <<>>
    /\ out_json = <<>>
    /\ \E na \in 0..MaxEvents : \E sa \in Slots(na) :
       \E nb \in 0..(MaxEvents - na) : \E sb \in Slots(nb) :
            file_src = FileOf(<<sa, sb>>)
    /\ file_dst = NoFile
    /\ err = "none"
    /\ NoOrch

Rerank ==
    /\ pc = "rerank"
    /\ LET r == reranking(file_src, opt.alpha, opt.cl_score_weight, opt.temperature)
       IN  /\ err' = r.err
           /\ file_dst' = r.results
           /\ pc' = IF r.err = "none" THEN "reranked" ELSE "failed"
    /\ UNCHANGED <<pp_results, opt, loader, out_json, file_src, l_id, log, loss, out>>

NextRerank == Rerank

SpecRerank == InitRerank /\ [][NextRerank]_vars

\* ---------------------------------------------------- predicted event count
\* outputs['pred_count'] for one video: the count head's max_eseq_length + 1
\* logits, for max_eseq_length 1 and 2: the largest at index 0, at index 0 and
\* 1 alike, at index 1 and 2 alike, at the last index
CountRows == {<<1, 0>>, <<1, 1, 0>>, <<0, 1, 1>>, <<0, 0, 1>>}

\* row.argmax(): the index, from 0, of the first of the largest values
Argmax(row) ==
    CHOOSE a \in 0..(Len(row) - 1) :
        /\ \A b \in 0..(Len(row) - 1) : row[b + 1] <= row[a + 1]
        /\ \A b \in 0..(a - 1) : row[b + 1] < row[a + 1]

\* mutant: no lower limit
ClampMin_None(x, lo) == x

\* x.clamp(min=lo)
ClampMin(x, lo) == IF x < lo THEN lo ELSE x

\* eseq_lens = outputs['pred_count'].argmax(dim=-1).clamp(min=1), one video
EseqLen(pred_count) == ClampMin(Argmax(pred_count), 1)

\* -------------------------------------------------- specification: evaluate
\* what PostProcess returns for one query of a video, as far as evaluate reads it
QueryResults ==
    [boxes : Timestamps, raw_boxes : {<<0, 0>>, <<1, 1>>}, scores : {0, 1}]

\* batch_json[video_name]: the events of the queries whose score is above the
\* threshold and whose raw box is not all zero
BatchEvents(results, pred_seq_len, score_threshold) ==
    LET Keep(pid) == /\ results[pid].scores > score_threshold
                     /\ results[pid].raw_boxes[1] + results[pid].raw_boxes[2] # 0
        EventOf(pid) ==
            [timestamp |-> results[pid].boxes,
             raw_box |-> results[pid].raw_boxes,
             proposal_score |-> results[pid].scores,
             sentence |-> <<"a">>,
             sentence_score |-> -1,
             cl_score |-> 1,
             query_id |-> pid - 1,
             pred_event_count |-> pred_seq_len]
        f[n \in 0..Len(results)] ==
            IF n = 0 THEN <<>>
            ELSE IF Keep(n) THEN Append(f[n - 1], EventOf(n)) ELSE f[n - 1]
    IN  f[Len(results)]

\* enable_ranking_by_logit = True if disable_selector or not opt.enable_selector
RankingByLogit(o) == o.disable_selector \/ ~o.enable_selector

DictUpdate(d, k, v) == [x \in DOMAIN d \cup {k} |-> IF x = k THEN v ELSE d[x]]

\* the subsequences of Videos: what the loader yields, one video a batch
Loaders ==
    {<<>>} \cup {<<Videos[i]>> : i \in 1..Len(Videos)}
           \cup {p \in {<<Videos[i], Videos[j]>> :
                            i \in 1..Len(Videos), j \in 1..Len(Videos)} :
                    p[1] # p[2]}

Init ==
    /\ pc = "loop"
    /\ opt \in [count_loss_coef_pos : BOOLEAN, enable_selector : BOOLEAN,
                disable_selector : BOOLEAN, alpha : {3},
                cl_score_weight : ClWeights, temperature : {EvalTemperature},
                score_threshold : {ScoreThreshold}]
    /\ loader \in Loaders
    /\ out_json = <<>>
    /\ file_src = NoFile
    /\ file_dst = NoFile
    /\ err = "none"
    /\ NoOrch

\* one iteration of evaluate's loop over the loader; log keeps the count
\* logits the model gave for the batch's video
EvaluateBatch ==
    /\ pc = "loop"
    /\ loader # <<>>
    /\ \E n \in 0..MaxQueries : \E results \in [1..n -> QueryResults] :
       \E pred_count \in CountRows :
            /\ out_json' = DictUpdate(out_json, Head(loader),
                            BatchEvents(results, EseqLen(pred_count),
                                        opt.score_threshold))
            /\ log' = Append(log, [video_key |-> Head(loader),
                                   pred_count |-> pred_count])
    /\ loader' = Tail(loader)
    /\ UNCHANGED <<pp_results, pc, opt, file_src, file_dst, err, l_id, loss, out>>

\* after the loop: save_dvc_json, then reranking, then eval_metrics
EvaluateRerank ==
    /\ pc = "loop"
    /\ loader = <<>>
    /\ opt.count_loss_coef_pos /\ RankingByLogit(opt)
    /\ file_src' = out_json
    /\ LET r == reranking(out_json, opt.alpha, opt.cl_score_weight, opt.temperature)
       IN  /\ err' = r.err
           /\ file_dst' = r.results
           /\ pc' = IF r.err = "none" THEN "done" ELSE "failed"
    /\ UNCHANGED <<pp_results, opt, loader, out_json, l_id, log, loss, out>>

\* after the loop: save_dvc_json, then selecting with select_indices_json,
\* which is still the empty dict it was created as, then eval_metrics
EvaluateSelect ==
    /\ pc = "loop"
    /\ loader = <<>>
    /\ ~(opt.count_loss_coef_pos /\ RankingByLogit(opt))
    /\ ~RankingByLogit(opt)
    /\ file_src' = out_json
    /\ LET r == selecting(out_json, <<>>)
       IN  /\ err' = r.err
           /\ file_dst' = r.results
           /\ pc' = IF r.err = "none" THEN "done" ELSE "failed"
    /\ UNCHANGED <<pp_results, opt, loader, out_json, l_id, log, loss, out>>

\* after the loop: save_dvc_json, then eval_metrics on the saved file itself
EvaluatePlain ==
    /\ pc = "loop"
    /\ loader = <<>>
    /\ ~opt.count_loss_coef_pos /\ RankingByLogit(opt)
    /\ file_src' = out_json
    /\ pc' = "done"
    /\ UNCHANGED <<pp_results, opt, loader, out_json, file_dst, err, l_id, log, loss, out>>

Next == EvaluateBatch \/ EvaluateRerank \/ EvaluateSelect \/ EvaluatePlain

Spec == Init /\ [][Next]_vars

\* ------------------------------------ specification: prediction orchestration
\* criterion and contrastive_criterion are called, not modelled: a call returns
\* as many values as its call site unpacks, and the match it returns is named
\* by where the orchestration reads it (last_indices, aux_indices[l]).
CaptionDecoderTypes == {"none", "light", "gpt2", "standard"}

NoEval ==
    /\ loader = <<>> /\ out_json = <<>> /\ file_src = NoFile /\ file_dst = NoFile
    /\ pp_results = <<>>

InitReference == [src |-> "init_reference", idx |-> 0]

\* inter_references[i], for inter_references of L entries
InterReference(i, L) == [src |-> "inter_references", idx |-> PyIndex(i, L)]

\* reference = init_reference if l_id == 0 else inter_references[l_id - 1]
LayerReference(l, L) == IF l = 0 THEN InitReference ELSE InterReference(l - 1, L)

NoIndices == [src |-> "None", idx |-> 0]

\* mutant: every layer is given the final layer's match
LayerIndices_AlwaysLast(l, L) == [src |-> "last_indices", idx |-> 0]

\* indices = last_indices[0] if l_id == hs.shape[0] - 1 else aux_indices[l_id][0]
LayerIndices(l, L) ==
    IF l = L - 1 THEN [src |-> "last_indices", idx |-> 0]
    ELSE [src |-> "aux_indices", idx |-> l]

\* mutant: no key is given the layer suffix
LayerKey_NoSuffix(k, l, L) == k

\* k + f'_{l_id}' if l_id != hs.shape[0] - 1, else k
LayerKey(k, l, L) == IF l # L - 1 THEN k \o "_" \o ToString(l) ELSE k

\* loss.update(l_dict): l_dict maps every name of terms to the value layer l
\* computed with the given indices and caption decoder type
LossUpdate(ls, terms, l, L, indices, captype) ==
    [key \in DOMAIN ls \cup {LayerKey(k, l, L) : k \in terms} |->
        IF \E k \in terms : key = LayerKey(k, l, L)
        THEN [term |-> CHOOSE k \in terms : key = LayerKey(k, l, L),
              layer |-> l, indices |-> indices, captype |-> captype]
        ELSE ls[key]]

\* len(aux_indices): one match per entry of out['aux_outputs']
AuxIndicesLen(o) == IF o.aux_loss THEN o.L - 1 ELSE 0

\* how many values caption_prediction returns
CaptionPredictionArity(captioner_type) == IF captioner_type = "none" THEN 4 ELSE 5

Step(policy, phase, l, ref, captype, indices) ==
    [policy |-> policy, phase |-> phase, layer |-> l, reference |-> ref,
     captioner_type |-> captype, indices |-> indices, matched |-> out.matched]

\* mutant: the full policy only at evaluation
FullPolicy_EvalOnly(o) == o.eval_mode

\* if eval_mode or self.opt.caption_loss_coef == 0
FullPolicy(o) == o.eval_mode \/ o.caption_loss_coef_zero

\* the keys whose per-layer values the prediction loop appends to a list
LoopKeys ==
    {"pred_logits", "pred_count", "pred_boxes", "caption_probs", "seq", "cl_match_mats"}

\* the value layer l (from 0) has for the output key k
LayerValue(k, l) == [key |-> k, layer |-> l]

\* the lists after the loop iteration of layer l has appended to them
Collect(lists, l) == [k \in DOMAIN lists |-> Append(lists[k], LayerValue(k, l))]

\* all_out of the full policy: the collected lists, event_embed and event_feat,
\* and text_embed when there is one
FullAllOut(lists, o) ==
    LET others == {"event_embed", "event_feat"}
                     \cup (IF o.enable_contrastive THEN {"text_embed"} ELSE {})
    IN  [k \in DOMAIN lists \cup others |->
            IF k \in DOMAIN lists THEN lists[k]
            ELSE [l \in 1..o.L |-> LayerValue(k, l - 1)]]

\* mutant: the final layer is among the auxiliary outputs as well
Assemble_AuxWithLast(all_out, aux_loss, num_pred) ==
    [k \in DOMAIN all_out \cup (IF aux_loss THEN {"aux_outputs"} ELSE {}) |->
        IF k = "aux_outputs"
        THEN [j \in 1..num_pred |-> [x \in DOMAIN all_out |-> all_out[x][j]]]
        ELSE all_out[k][Len(all_out[k])]]

\* out = {k: v[-1] for k, v in all_out.items()} and, with aux_loss,
\* out['aux_outputs'] = [{ks[i]: vs[i][j] ...} for j in range(num_pred - 1)]
Assemble(all_out, aux_loss, num_pred) ==
    [k \in DOMAIN all_out \cup (IF aux_loss THEN {"aux_outputs"} ELSE {}) |->
        IF k = "aux_outputs"
        THEN [j \in 1..(num_pred - 1) |-> [x \in DOMAIN all_out |-> all_out[x][j]]]
        ELSE all_out[k][Len(all_out[k])]]

BatchSizes == {1, 2}        \* N, videos of one batch

\* torch.zeros(a, b, c)
Zeros(a, b, c) == [i \in 1..a |-> [q \in 1..b |-> [w \in 1..c |-> 0]]]

\* mutant: every layer decodes with the configured type
FullCaptionerType_EveryLayer(l, L, disable_captioning, decoder_type) == decoder_type

\* the type parallel_prediction_full passes to caption_prediction_eval for
\* layer l
FullCaptionerType(l, L, disable_captioning, decoder_type) ==
    IF l # L - 1 \/ disable_captioning THEN "none" ELSE decoder_type

\* caption_prediction_eval for hs of shape (N_, N_q, C): cap_probs and seq.
\* cap_head.sample is called for every type but 'none'; what it returns is
\* two tokens and their log-probabilities per query (seq is None for gpt2)
caption_prediction_eval(decoder_type, N_, N_q) ==
    IF decoder_type = "none"
    THEN [sampled |-> FALSE,
          cap_prob_eval |-> Zeros(N_, N_q, 3),
          seq |-> Zeros(N_, N_q, 3)]
    ELSE [sampled |-> TRUE,
          cap_prob_eval |-> [i \in 1..N_ |-> [q \in 1..N_q |-> <<-1, -2>>]],
          seq |-> IF decoder_type = "gpt2" THEN <<>>
                  ELSE [i \in 1..N_ |-> [q \in 1..N_q |-> <<4, 7>>]]]

\* tensor.sigmoid() of an integer logit, in thousandths
Sigmoid(x) ==
    CASE x = -3 -> 47 [] x = -2 -> 119 [] x = -1 -> 269 [] x = 0 -> 500
      [] x = 1 -> 731 [] x = 2 -> 881 [] x = 3 -> 953

\* reference.shape[-1]: 1 (center) or 2 (center, length) in this model's
\* transformer; 3 stands for any other size
ReferenceDims == {1, 2, 3}

\* inverse_sigmoid of a probability in thousandths, as a logit
inverse_sigmoid(x) ==
    CASE x = 47 -> -3 [] x = 119 -> -2 [] x = 269 -> -1 [] x = 500 -> 0
      [] x = 731 -> 1 [] x = 881 -> 2 [] x = 953 -> 3

\* the reference tensor ref of dim components, for one query, in thousandths
ReferenceValue(ref, dim) ==
    [t \in 1..dim |->
        Sigmoid(((ref.idx + t + (IF ref.src = "init_reference" THEN 0 ELSE 1)) % 3) - 1)]

\* tmp = self.bbox_head[l_id](hs_lid), for one query: two logits
BboxHead(l) == <<(l % 2) + 1, -1 - (l % 2)>>

\* the refinement's assert reference.shape[-1] == 1 fails
RefineFails(disable_iterative_refine, dim) ==
    ~disable_iterative_refine /\ dim \notin {1, 2}

\* mutant: the box head's offset is applied whether refinement is disabled or not
OutputsCoord_AlwaysRefine(l, L, disable_iterative_refine, dim) ==
    LET reference == ReferenceValue(LayerReference(l, L), dim)
        tmp == BboxHead(l)
    IN  <<Sigmoid(tmp[1] + inverse_sigmoid(reference[1])),
          Sigmoid(IF dim = 2 THEN tmp[2] + inverse_sigmoid(reference[2]) ELSE tmp[2])>>

\* outputs_coord of layer l, for one query, where the refinement does not fail
OutputsCoord(l, L, disable_iterative_refine, dim) ==
    LET reference == ReferenceValue(LayerReference(l, L), dim)
        tmp == BboxHead(l)
    IN  IF disable_iterative_refine THEN reference
        ELSE <<Sigmoid(tmp[1] + inverse_sigmoid(reference[1])),
               Sigmoid(IF dim = 2 THEN tmp[2] + inverse_sigmoid(reference[2])
                       ELSE tmp[2])>>

\* the text-embedding list the text encoder returned, of n entries, each named
\* by its place in that list: of two entries, 0 is raw and 1 is context
TextEmbed(n) == [j \in 1..n |-> j - 1]

\* if len(others['text_embed']) < num_pred: raw, context = others['text_embed'];
\* others['text_embed'] = [raw] * (num_pred - 1) + [context]; then
\* assert len(others['text_embed']) == num_pred
PadTextEmbed(text_embed, num_pred) ==
    IF Len(text_embed) < num_pred
    THEN IF Len(text_embed) = 2
         THEN [err |-> "none",
               text_embed |-> [j \in 1..num_pred |->
                                 IF j < num_pred THEN text_embed[1] ELSE text_embed[2]]]
         ELSE [err |-> "ValueError", text_embed |-> text_embed]
    ELSE IF Len(text_embed) # num_pred
         THEN [err |-> "AssertionError", text_embed |-> text_embed]
         ELSE [err |-> "none", text_embed |-> text_embed]

\* the part of one iteration of a prediction loop after the caption call: the
\* refined segment, then, where with_text says so, the text-embedding list and
\* the similarity matrix; cl_text is the entry of the list the matrix was
\* computed from, -1 for the placeholder 0
PredictLayer(o, ov, l, with_text) ==
    LET pad == IF with_text THEN PadTextEmbed(ov.text_embed, o.L)
               ELSE [err |-> "none", text_embed |-> ov.text_embed]
    IN  IF RefineFails(o.disable_iterative_refine, o.ref_dim)
        THEN [err |-> "AssertionError", out |-> ov]
        ELSE IF pad.err # "none"
        THEN [err |-> pad.err, out |-> ov]
        ELSE [err |-> "none",
              out |-> [ov EXCEPT
                        !.caption_probs = [phase |-> "pred", layer |-> l],
                        !.collected = Collect(ov.collected, l),
                        !.text_embed = pad.text_embed,
                        !.cl_text = Append(ov.cl_text,
                                IF with_text THEN pad.text_embed[l + 1] ELSE -1),
                        !.coords = Append(ov.coords,
                                OutputsCoord(l, o.L, o.disable_iterative_refine,
                                             o.ref_dim))]]

\* a call of contrastive_criterion for layer l with text_embed[l]
ContrastiveCall(ov, l) ==
    [ov EXCEPT !.cl_calls = Append(ov.cl_calls,
                                   [layer |-> l, text_embed |-> ov.text_embed[l + 1]])]

\* text_embed is None without contrastive learning (text_len 0) and the text
\* encoder's list with it.  PDVC.forward never passes disable_captioning, so
\* a call with disable_captioning = True is a call of parallel_prediction_full
\* itself, taken here to be made for evaluation.
InitPred ==
    /\ opt \in {o \in [L : 1..MaxLayers, aux_loss : BOOLEAN,
                        enable_contrastive : BOOLEAN,
                        caption_decoder_type : CaptionDecoderTypes,
                        eval_mode : BOOLEAN, caption_loss_coef_zero : BOOLEAN,
                        disable_captioning : BOOLEAN,
                        set_cost_cl_positive : BOOLEAN,
                        disable_iterative_refine : BOOLEAN,
                        ref_dim : ReferenceDims,
                        text_len : 0..(MaxLayers + 1),
                        N : BatchSizes, N_q : 1..MaxQueries] :
                    /\ (o.text_len = 0) <=> ~o.enable_contrastive
                    /\ o.disable_captioning => o.eval_mode}
    /\ pc = IF opt.disable_captioning THEN "full_pred" ELSE "forward"
    /\ err = "none"
    /\ l_id = 0
    /\ log = <<>>
    /\ loss = <<>>
    /\ out = [matched |-> FALSE, has_aux_outputs |-> FALSE,
              caption_probs |-> [phase |-> "none", layer |-> 0],
              collected |-> [k \in LoopKeys |-> <<>>],
              criterion_out |-> <<>>,
              text_embed |-> TextEmbed(opt.text_len),
              cl_text |-> <<>>, cl_calls |-> <<>>, coords |-> <<>>,
              cap_evals |-> <<>>]
    /\ NoEval

\* PDVC.forward: the choice of the policy
Forward ==
    /\ pc = "forward"
    /\ pc' = IF FullPolicy(opt) THEN "full_pred" ELSE "matched_pred"
    /\ l_id' = 0
    /\ UNCHANGED <<pp_results, opt, loader, out_json, file_src, file_dst, err, log, loss, out>>

\* parallel_prediction_full: one iteration of the prediction loop
FullLayer ==
    /\ pc = "full_pred"
    /\ l_id < opt.L
    /\ log' = Append(log,
            Step("full", "pred", l_id, LayerReference(l_id, opt.L),
                 FullCaptionerType(l_id, opt.L, opt.disable_captioning,
                                   opt.caption_decoder_type),
                 NoIndices))
    /\ LET r == PredictLayer(opt, out, l_id, opt.enable_contrastive)
           cap == caption_prediction_eval(
                      FullCaptionerType(l_id, opt.L, opt.disable_captioning,
                                        opt.caption_decoder_type),
                      opt.N, opt.N_q)
       IN  IF r.err # "none"
           THEN /\ pc' = "failed"
                /\ err' = r.err
                /\ l_id' = l_id
                /\ out' = r.out
           ELSE /\ pc' = IF l_id + 1 = opt.L THEN "full_criterion" ELSE "full_pred"
                /\ err' = err
                /\ l_id' = l_id + 1
                /\ out' = [r.out EXCEPT !.cap_evals = Append(out.cap_evals, cap)]
    /\ UNCHANGED <<pp_results, opt, loader, out_json, file_src, file_dst, loss>>

\* parallel_prediction_full: output assembly and the criterion call
FullCriterion ==
    /\ pc = "full_criterion"
    /\ pc' = IF opt.enable_contrastive THEN "full_cl" ELSE "returned"
    /\ out' = [out EXCEPT
                !.has_aux_outputs = opt.aux_loss,
                !.matched = TRUE,
                !.criterion_out =
                    LET d == Assemble(FullAllOut(out.collected, opt), opt.aux_loss, opt.L)
                    IN  [k \in DOMAIN d \cup {"memory"} |->
                            IF k = "memory" THEN "memory" ELSE d[k]]]
    /\ l_id' = 0
    /\ UNCHANGED <<pp_results, opt, loader, out_json, file_src, file_dst, err, log, loss>>

\* parallel_prediction_full: one iteration of the contrastive-loss loop
FullContrastive ==
    /\ pc = "full_cl"
    /\ l_id < opt.L
    /\ IF ~opt.aux_loss /\ l_id = 0
       THEN /\ loss' = loss
            /\ err' = err
            /\ out' = out
            /\ pc' = IF l_id + 1 = opt.L THEN "returned" ELSE "full_cl"
       ELSE IF l_id # opt.L - 1 /\ PyIndex(l_id, AuxIndicesLen(opt)) = -1
       THEN /\ loss' = loss
            /\ err' = "IndexError"
            /\ out' = out
            /\ pc' = "failed"
       ELSE /\ loss' = LossUpdate(loss, {"contrastive_loss"}, l_id, opt.L,
                                  LayerIndices(l_id, opt.L), "none")
            /\ err' = err
            /\ out' = ContrastiveCall(out, l_id)
            /\ pc' = IF l_id + 1 = opt.L THEN "returned" ELSE "full_cl"
    /\ l_id' = l_id + 1
    /\ UNCHANGED <<pp_results, opt, loader, out_json, file_src, file_dst, log>>

\* parallel_prediction_matched: one iteration of the prediction loop
MatchedLayer ==
    /\ pc = "matched_pred"
    /\ l_id < opt.L
    /\ log' = Append(log,
            Step("matched", "pred", l_id, LayerReference(l_id, opt.L), "none",
                 NoIndices))
    /\ LET r == PredictLayer(opt, out, l_id,
                             opt.enable_contrastive /\ opt.set_cost_cl_positive)
       IN  /\ out' = r.out
           /\ IF r.err # "none"
              THEN /\ pc' = "failed"
                   /\ err' = r.err
                   /\ l_id' = l_id
              ELSE /\ pc' = IF l_id + 1 = opt.L THEN "matched_criterion"
                            ELSE "matched_pred"
                   /\ err' = err
                   /\ l_id' = l_id + 1
    /\ UNCHANGED <<pp_results, opt, loader, out_json, file_src, file_dst, loss>>

\* parallel_prediction_matched: output assembly and the criterion call
MatchedCriterion ==
    /\ pc = "matched_criterion"
    /\ pc' = IF opt.aux_loss THEN "matched_caption" ELSE "matched_last"
    /\ out' = [out EXCEPT
                !.has_aux_outputs = opt.aux_loss,
                !.matched = TRUE,
                !.criterion_out = Assemble(out.collected, opt.aux_loss, opt.L)]
    /\ l_id' = 0
    /\ UNCHANGED <<pp_results, opt, loader, out_json, file_src, file_dst, err, log, loss>>

CaptionTerms ==
    {"loss_caption", "loss_vis_cap", "loss_text_cap"}
        \cup (IF opt.enable_contrastive THEN {"contrastive_loss"} ELSE {})

\* parallel_prediction_matched with aux_loss: one iteration of the caption-loss
\* loop; after the last one, out.update and return
MatchedCaption ==
    /\ pc = "matched_caption"
    /\ l_id < opt.L
    /\ log' = Append(log,
            Step("matched", "caption", l_id, LayerReference(l_id, opt.L),
                 opt.caption_decoder_type, LayerIndices(l_id, opt.L)))
    /\ IF CaptionPredictionArity(opt.caption_decoder_type) # 5
       THEN /\ pc' = "failed"
            /\ err' = "ValueError"
            /\ UNCHANGED <<loss, out>>
       ELSE IF opt.enable_contrastive /\ PyIndex(l_id, Len(out.text_embed)) = -1
       THEN /\ pc' = "failed"
            /\ err' = "IndexError"
            /\ UNCHANGED <<loss, out>>
       ELSE /\ loss' = LossUpdate(loss, CaptionTerms, l_id, opt.L,
                                  LayerIndices(l_id, opt.L), opt.caption_decoder_type)
            /\ err' = err
            /\ LET called == IF opt.enable_contrastive THEN ContrastiveCall(out, l_id)
                             ELSE out
               IN  IF l_id + 1 = opt.L
                   THEN /\ pc' = "returned"
                        /\ out' = [called EXCEPT
                                    !.caption_probs = [phase |-> "caption",
                                                       layer |-> l_id]]
                   ELSE /\ pc' = "matched_caption"
                        /\ out' = called
    /\ l_id' = l_id + 1
    /\ UNCHANGED <<pp_results, opt, loader, out_json, file_src, file_dst>>

\* parallel_prediction_matched without aux_loss: the final layer's caption
\* loss, then out.pop('caption_losses') of a key out does not have
MatchedLast ==
    /\ pc = "matched_last"
    /\ LET l == opt.L - 1
       IN  /\ l_id' = l
           /\ log' = Append(log,
                    Step("matched", "caption", l, InterReference(l - 1, opt.L),
                         opt.caption_decoder_type, [src |-> "last_indices", idx |-> 0]))
           /\ IF CaptionPredictionArity(opt.caption_decoder_type) # 5
              THEN /\ err' = "ValueError"
                   /\ loss' = loss
                   /\ out' = out
              ELSE IF opt.enable_contrastive /\ PyIndex(l, Len(out.text_embed)) = -1
              THEN /\ err' = "IndexError"
                   /\ loss' = loss
                   /\ out' = out
              ELSE /\ err' = "KeyError"
                   /\ loss' = LossUpdate(loss, CaptionTerms, l, opt.L,
                                         [src |-> "last_indices", idx |-> 0],
                                         opt.caption_decoder_type)
                   /\ out' = IF opt.enable_contrastive THEN ContrastiveCall(out, l)
                             ELSE out
    /\ pc' = "failed"
    /\ UNCHANGED <<pp_results, opt, loader, out_json, file_src, file_dst>>

NextPred ==
    \/ Forward
    \/ FullLayer \/ FullCriterion \/ FullContrastive
    \/ MatchedLayer \/ MatchedCriterion \/ MatchedCaption \/ MatchedLast

SpecPred == InitPred /\ [][NextPred]_vars

\* ------------------------------------------------ specification: PostProcess
\* Indices (queries, classes, videos of the batch, flat raw indices) are the
\* program's, counted from 0.  Probabilities are in thousandths, segments in
\* tenths, caption log-probabilities in units, cosines exact fractions.
ClassCounts == {1, 2}       \* N_class
LogitValues == {0, 1}
Durations == <<10, 20>>     \* target_sizes of the videos of the batch
NoCapScore == -100000       \* -1e5

\* box_ops.box_cl_to_xy: (center, length) to (start, end), for an even length
box_cl_to_xy(b) == <<b[1] - (b[2] \div 2), b[1] + (b[2] \div 2)>>

\* mutant: the boxes are left as they are
Clip_None(b) == b

\* boxes[boxes < 0] = 0; boxes[boxes > 1] = 1
Clip(b) == [t \in 1..2 |-> IF b[t] < 0 THEN 0 ELSE IF b[t] > 10 THEN 10 ELSE b[t]]

\* translator.rtranslate(s): called, not modelled; the text of a sequence
rtranslate(s) == <<"rtranslate", s>>

RECURSIVE GCD(_, _)
GCD(a, b) == IF b = 0 THEN a ELSE GCD(b, a % b)

Abs(x) == IF x < 0 THEN -x ELSE x

\* the 2-norm of a vector whose norm is an integer
Norm(v) == CHOOSE n \in 0..(Abs(v[1]) + Abs(v[2])) : n * n = v[1] * v[1] + v[2] * v[2]

\* one entry of torch.mm(F.normalize(text), F.normalize(event).t()), as the
\* fraction <<numerator, denominator>> in lowest terms
Cosine(a, b) ==
    LET d == a[1] * b[1] + a[2] * b[2]
        n == Norm(a) * Norm(b)
        g == GCD(Abs(d), n)
    IN  <<d \div g, n \div g>>

\* model.text_encoding: called, not modelled; the encoder's embedding of a
\* caption is a fixed vector per caption
TextVectors == <<<<4, 3>>, <<0, 1>>, <<8, 15>>>>
text_encoding(c) == IF c = "" THEN <<3, 4>> ELSE TextVectors[c[2][1]]

\* what the model put in outputs for query q of video i
QuerySeq(i, q) == <<q + 1, (q + i) % 2>>
QueryCapProb(i, q) == <<-(q + 1), -3>>
QueryBox(i, q) == <<9 * q + i, 2>>
QueryEventEmbed(i, q) ==
    IF i = 0 THEN <<<<1, 0>>, <<3, 4>>, <<5, 12>>>>[q + 1]
    ELSE <<<<0, 1>>, <<4, 3>>, <<12, 5>>>>[q + 1]

\* the rows of logits a video of the batch can have, flattened as
\* prob.view(N, -1) flattens them (raw index q * N_class + c): any row for the
\* first video, a strictly increasing or strictly decreasing one for the others
LogitRows(i, n) ==
    IF i = 0 THEN [1..n -> LogitValues]
    ELSE {[r \in 1..n |-> r - 4], [r \in 1..n |-> 3 - r]}

\* the outputs dict of N videos, N_q queries and N_class classes; seq_kind is
\* "seq" (a vocabulary decoder's sampled sequences), "gpt2" (seq is None and
\* caption_probs has gpt2_cap and gen_mask) or "noseq" (len(seq) == 0)
Outputs(N, N_q, N_class, seq_kind, logits, counts) ==
    [N |-> N, N_q |-> N_q, N_class |-> N_class, seq_kind |-> seq_kind,
     pred_logits |-> logits,
     pred_count |-> counts,
     pred_boxes |-> [i \in 1..N |-> [q \in 1..N_q |-> QueryBox(i - 1, q - 1)]],
     seq |-> IF seq_kind = "seq"
             THEN [i \in 1..N |-> [q \in 1..N_q |-> QuerySeq(i - 1, q - 1)]]
             ELSE <<>>,
     cap_prob_eval |->
             IF seq_kind = "noseq" THEN <<>>
             ELSE [i \in 1..N |-> [q \in 1..N_q |-> QueryCapProb(i - 1, q - 1)]],
     gpt2_cap |->
             IF seq_kind = "gpt2"
             THEN [r \in 1..(N * N_q) |->
                      <<"gpt2_cap", QuerySeq((r - 1) \div N_q, (r - 1) % N_q)>>]
             ELSE <<>>,
     gen_mask |->
             IF seq_kind = "gpt2"
             THEN [i \in 1..N |-> [q \in 1..N_q |->
                      [t \in 1..2 |-> IF QuerySeq(i - 1, q - 1)[t] > 0 THEN 1 ELSE 0]]]
             ELSE <<>>,
     event_embed |->
             [i \in 1..N |-> [q \in 1..N_q |-> QueryEventEmbed(i - 1, q - 1)]]]

\* prob.view(N, -1)[i]
Prob(o, i) == [r \in 1..(o.N_q * o.N_class) |-> Sigmoid(o.pred_logits[i][r])]

\* mutant: the first k indices, whatever their values
TopK_FirstK(row, k) == {[j \in 1..k |-> j - 1]}

\* torch.topk(row, k): the index lists it can return; which of several equal
\* values comes first, and which of them is left out, is not defined
TopK(row, k) ==
    {s \in [1..k -> 0..(Len(row) - 1)] :
        /\ \A a, b \in 1..k : a # b => s[a] # s[b]
        /\ \A a \in 1..(k - 1) : row[s[a] + 1] >= row[s[a + 1] + 1]
        /\ \A r \in 0..(Len(row) - 1) :
              (\A a \in 1..k : s[a] # r) => \A a \in 1..k : row[r + 1] <= row[s[a] + 1]}

\* torch.arange(N_q)
Arange(n) == [j \in 1..n |-> j - 1]

\* (mask * cap_prob).sum() over the positions of one sequence
RECURSIVE MaskedSum(_, _)
MaskedSum(mask, prob) ==
    IF mask = <<>> THEN 0
    ELSE Head(mask) * Head(prob) + MaskedSum(Tail(mask), Tail(prob))

\* mask = (seq > 0).float(), for one sequence
SeqMask(s) == [t \in 1..Len(s) |-> IF s[t] > 0 THEN 1 ELSE 0]

\* results[i] of PostProcess.forward for the video at position i of the batch,
\* given topk_indexes[i]; err is the exception the video's part raises
PostProcessVideo(o, i, topk_indexes, ranking, matching_score) ==
    LET N_q == o.N_q
        topk_boxes == [j \in 1..N_q |-> topk_indexes[j] \div o.N_class]
        labels == [j \in 1..N_q |-> topk_indexes[j] % o.N_class]
        scores == IF ranking THEN [j \in 1..N_q |-> Prob(o, i)[topk_indexes[j] + 1]]
                  ELSE Prob(o, i)
        boxes == [j \in 1..N_q |->
                    LET b == Clip(box_cl_to_xy(o.pred_boxes[i][topk_boxes[j] + 1]))
                    IN  <<b[1] * Durations[i], b[2] * Durations[i]>>]
        caps == CASE o.seq_kind = "gpt2" ->
                        [j \in 1..N_q |-> o.gpt2_cap[(i - 1) * N_q + topk_boxes[j] + 1]]
                  [] o.seq_kind = "seq" ->
                        [j \in 1..N_q |-> rtranslate(o.seq[i][topk_boxes[j] + 1])]
                  [] OTHER -> [j \in 1..N_q |-> ""]
        cap_scores ==
                CASE o.seq_kind = "gpt2" ->
                        [j \in 1..N_q |->
                            MaskedSum(o.gen_mask[i][j], o.cap_prob_eval[i][j])]
                  [] o.seq_kind = "seq" ->
                        [j \in 1..N_q |->
                            MaskedSum(SeqMask(o.seq[i][topk_boxes[j] + 1]),
                                      o.cap_prob_eval[i][topk_boxes[j] + 1])]
                  [] OTHER -> [j \in 1..N_q |-> NoCapScore]
        gather_ok == \A j \in 1..N_q : topk_indexes[j] < N_q
        cl_scores ==
                IF ~matching_score THEN [j \in 1..N_q |-> <<0, 1>>]
                ELSE IF ~gather_ok THEN <<>>
                ELSE [j \in 1..N_q |->
                        Cosine(text_encoding(caps[j]),
                               o.event_embed[i][topk_indexes[j] + 1])]
    IN  [err |-> IF matching_score /\ ~gather_ok THEN "RuntimeError" ELSE "none",
         result |-> [scores |-> scores, labels |-> labels, boxes |-> boxes,
                     raw_boxes |-> boxes, captions |-> caps,
                     caption_scores |-> cap_scores, cl_scores |-> cl_scores,
                     query_id |-> topk_boxes, vid_duration |-> Durations[i],
                     pred_seq_len |-> EseqLen(o.pred_count[i]),
                     raw_idx |-> topk_indexes]]

\* the index lists PostProcess works with for video i
TopkIndexes(o, i, ranking) ==
    IF i > o.N THEN {<<>>}
    ELSE IF ranking THEN TopK(Prob(o, i), o.N_q)
    ELSE {Arange(o.N_q)}

InitPost ==
    /\ pc = "postprocess"
    /\ opt \in [enable_ranking_by_logit : BOOLEAN, enable_contrastive : BOOLEAN,
                eval_enable_matching_score : BOOLEAN]
    /\ \E N \in BatchSizes : \E N_q \in 1..MaxQueries : \E N_class \in ClassCounts :
       \E seq_kind \in {"seq", "gpt2", "noseq"} :
       \E r1 \in LogitRows(0, N_q * N_class) :
       \E r2 \in (IF N = 2 THEN LogitRows(1, N_q * N_class) ELSE {<<>>}) :
       \E c1 \in CountRows :
            out = Outputs(N, N_q, N_class, seq_kind,
                          IF N = 2 THEN <<r1, r2>> ELSE <<r1>>,
                          IF N = 2 THEN <<c1, [r \in 1..Len(c1) |-> r]>> ELSE <<c1>>)
    /\ pp_results = <<>>
    /\ err = "none"
    /\ l_id = 0 /\ log = <<>> /\ loss = <<>>
    /\ loader = <<>> /\ out_json = <<>> /\ file_src = NoFile /\ file_dst = NoFile

\* PostProcess.forward
PostProcessForward ==
    /\ pc = "postprocess"
    /\ \E t1 \in TopkIndexes(out, 1, opt.enable_ranking_by_logit) :
       \E t2 \in TopkIndexes(out, 2, opt.enable_ranking_by_logit) :
          LET topk_indexes == <<t1, t2>>
              r == [i \in 1..out.N |->
                      PostProcessVideo(out, i, topk_indexes[i],
                          opt.enable_ranking_by_logit,
                          opt.enable_contrastive /\ opt.eval_enable_matching_score)]
          IN  IF \E i \in 1..out.N : r[i].err # "none"
              THEN /\ pc' = "failed"
                   /\ err' = "RuntimeError"
                   /\ pp_results' = <<>>
              ELSE /\ pc' = "postprocessed"
                   /\ err' = err
                   /\ pp_results' = [i \in 1..out.N |-> r[i].result]
    /\ UNCHANGED <<opt, loader, out_json, file_src, file_dst, l_id, log, loss, out>>

NextPost == PostProcessForward

SpecPost == InitPost /\ [][NextPost]_vars

\* ------------------------------------------- specification: schema conversions
\* A file's mapping from video name to value is a Python dict loaded from JSON:
\* a sequence of entries [k, v] with distinct keys, in insertion order.  Video
\* names are sequences of characters, so that name[2:] and "v_" + name are
\* what they are in the program.
V_ == <<"v", "_">>
GtNames == {V_ \o <<"a">>, V_ \o <<"b">>, <<"x", "_", "a">>}
TapNames == {<<"a">>, <<"b">>, V_ \o <<"a">>}
ConvSegments == {<<0, 1>>, <<1, 2>>}
ConvSentences == {"s", "t"}
FakeSent == "None None"     \* fake_sent

DictKeys(d) == {d[i].k : i \in 1..Len(d)}

\* d[k], for a key d has
DictGet(d, k) == d[CHOOSE i \in 1..Len(d) : d[i].k = k].v

\* d[k] = v: a key d has keeps its place, a new key goes last
DictSet(d, k, v) ==
    IF k \in DictKeys(d)
    THEN [i \in 1..Len(d) |-> IF d[i].k = k THEN [k |-> k, v |-> v] ELSE d[i]]
    ELSE Append(d, [k |-> k, v |-> v])

\* d without the key k, which d.pop(k) removes
DictPop(d, k) == SelectSeq(d, LAMBDA e : e.k # k)

\* name[2:]
DropTwo(name) == SubSeq(name, 3, Len(name))

\* p.get(f, default) of an event p
GetOr(p, f, default) == IF f \in DOMAIN p THEN p[f] ELSE default

\* convert_gtjson_to_tapjson: out['results']
convert_gtjson_to_tapjson(data) ==
    LET video_info(g) ==
            [i \in 1..Len(g.timestamps) |->
                [segment |-> g.timestamps[i], score |-> 1, sentence |-> g.sentences[i]]]
        f[n \in 0..Len(data)] ==
            IF n = 0 THEN <<>>
            ELSE DictSet(f[n - 1], DropTwo(data[n].k), video_info(data[n].v))
    IN  f[Len(data)]

\* mutant: the proposals are not sorted by their start
SortBySegmentStart_NoSort(v) == v

\* sorted(vid_info, key=lambda x: x['segment'][0])
SortBySegmentStart(v) ==
    StableSort(v, [i \in 1..Len(v), j \in 1..Len(v) |->
                      v[i].segment[1] < v[j].segment[1]])

\* out['v_' + vid] of convert_tapjson_to_gtjson for a video with proposals
GtEntry(vid_info, duration) ==
    [timestamps |-> [i \in 1..Len(vid_info) |-> vid_info[i].segment],
     sentences |-> [i \in 1..Len(vid_info) |-> FakeSent],
     duration |-> duration]

\* convert_tapjson_to_gtjson: the dict it writes; gt_data is the reference
\* file, and a video with proposals that it does not have raises KeyError
convert_tapjson_to_gtjson(data, gt_data) ==
    LET f[n \in 0..Len(data)] ==
            IF n = 0 THEN [err |-> "none", out |-> <<>>]
            ELSE LET vid == data[n].k
                     vid_info == SortBySegmentStart(data[n].v)
                 IN  IF f[n - 1].err # "none" THEN f[n - 1]
                     ELSE IF vid_info = <<>>
                     THEN [err |-> "none",
                           out |-> DictSet(f[n - 1].out, V_ \o vid,
                                       [timestamps |-> <<>>, sentences |-> <<>>])]
                     ELSE IF V_ \o vid \notin DOMAIN gt_data
                     THEN [err |-> "KeyError", out |-> <<>>]
                     ELSE [err |-> "none",
                           out |-> DictSet(f[n - 1].out, V_ \o vid,
                                       GtEntry(vid_info, gt_data[V_ \o vid]))]
    IN  f[Len(data)]

\* the event p after p_info['timestamp'] = p_info.pop('segment'),
\* p_info['proposal_score'] = p_info.pop('score') and
\* p_info['sentence_score'] = p_info.pop('sentence_score', 0)
RenameTapEvent(p) ==
    [f \in (DOMAIN p \ {"segment", "score"})
              \cup {"timestamp", "proposal_score", "sentence_score"} |->
        CASE f = "timestamp" -> p.segment
          [] f = "proposal_score" -> p.score
          [] f = "sentence_score" -> GetOr(p, "sentence_score", 0)
          [] OTHER -> p[f]]

\* mutant: the video keeps its name
DvcName_Same(name) == name

\* "v_" + video_name
DvcName(name) == V_ \o name

\* convert_tapjson_to_dvcjson: data['results'] as it is written; the names are
\* listed first, then every listed name's events are renamed in place and the
\* list is moved to the key "v_" + name of the same dict
convert_tapjson_to_dvcjson(data) ==
    LET all_names == [i \in 1..Len(data) |-> data[i].k]
        f[n \in 0..Len(data)] ==
            IF n = 0 THEN [err |-> "none", results |-> data]
            ELSE IF f[n - 1].err # "none" THEN f[n - 1]
            ELSE LET d == f[n - 1].results
                     video_name == all_names[n]
                     v == DictGet(d, video_name)
                 IN  IF \E i \in 1..Len(v) : {"segment", "score"} \ DOMAIN v[i] # {}
                     THEN [err |-> "KeyError", results |-> <<>>]
                     ELSE [err |-> "none",
                           results |->
                               DictSet(DictPop(d, video_name), DvcName(video_name),
                                       [i \in 1..Len(v) |-> RenameTapEvent(v[i])])]
    IN  f[Len(data)]

\* convert_dvcjson_to_tapjson: out['results']
convert_dvcjson_to_tapjson(data) ==
    LET video_info(v) ==
            [i \in 1..Len(v) |->
                [segment |-> v[i].timestamp,
                 score |-> GetOr(v[i], "proposal_score", 1),
                 sentence |-> v[i].sentence,
                 sentence_score |-> GetOr(v[i], "sentence_score", 0)]]
        f[n \in 0..Len(data)] ==
            IF n = 0 THEN [err |-> "none", results |-> <<>>]
            ELSE IF f[n - 1].err # "none" THEN f[n - 1]
            ELSE IF \E i \in 1..Len(data[n].v) :
                        {"timestamp", "sentence"} \ DOMAIN data[n].v[i] # {}
            THEN [err |-> "KeyError", results |-> <<>>]
            ELSE [err |-> "none",
                  results |-> DictSet(f[n - 1].results, DropTwo(data[n].k),
                                      video_info(data[n].v))]
    IN  f[Len(data)]

\* the events of a ground-truth video, as pairs of a timestamp and a sentence
GtVideos(n) ==
    {[timestamps |-> [i \in 1..n |-> e[i][1]], sentences |-> [i \in 1..n |-> e[i][2]]] :
        e \in [1..n -> ConvSegments \X ConvSentences]}

\* the events of a detection-style file: segment, score and sentence, some
\* with a sentence_score and a label as well
TapEvents ==
    [segment : ConvSegments, score : {1, 2}, sentence : {"s"}]
        \cup [segment : ConvSegments, score : {2}, sentence : {"t"},
              sentence_score : {-5}, label : {0}]

TapLists(n) == [1..n -> TapEvents]

\* the reference files convert_tapjson_to_gtjson can be given: video key to
\* duration
GtReferences ==
    {[k \in {V_ \o <<"a">>, V_ \o <<"b">>} |-> 10], [k \in {V_ \o <<"a">>} |-> 10]}

InitConv ==
    /\ \/ /\ pc = "gt2tap"
          /\ opt \in [reference : GtReferences]
          /\ \E a \in GtNames : \E na \in 0..MaxEvents : \E x \in GtVideos(na) :
                \/ file_src = <<[k |-> a, v |-> x]>>
                \/ \E b \in GtNames \ {a} : \E nb \in 0..(MaxEvents - na) :
                   \E y \in GtVideos(nb) :
                        file_src = <<[k |-> a, v |-> x], [k |-> b, v |-> y]>>
       \/ /\ pc = "tap2dvc"
          /\ opt = <<>>
          /\ \E a \in TapNames : \E na \in 0..MaxEvents : \E x \in TapLists(na) :
                \/ file_src = <<[k |-> a, v |-> x]>>
                \/ \E b \in TapNames \ {a} : \E nb \in 0..(MaxEvents - na) :
                   \E y \in TapLists(nb) :
                        file_src = <<[k |-> a, v |-> x], [k |-> b, v |-> y]>>
    /\ file_dst = NoFile
    /\ out_json = NoFile
    /\ loader = <<>>
    /\ err = "none"
    /\ NoOrch

\* convert_gtjson_to_tapjson(gt_json, tap_json)
ConvertGtToTap ==
    /\ pc = "gt2tap"
    /\ file_dst' = convert_gtjson_to_tapjson(file_src)
    /\ pc' = "tap2gt"
    /\ UNCHANGED <<opt, loader, out_json, file_src, err, l_id, log, loss, out,
                   pp_results>>

\* convert_tapjson_to_gtjson(dvc_json, out_json, reference_json)
ConvertTapToGt ==
    /\ pc = "tap2gt"
    /\ LET r == convert_tapjson_to_gtjson(file_dst, opt.reference)
       IN  /\ err' = r.err
           /\ out_json' = IF r.err = "none" THEN r.out ELSE out_json
           /\ pc' = IF r.err = "none" THEN "gt_converted" ELSE "gt_failed"
    /\ UNCHANGED <<opt, loader, file_src, file_dst, l_id, log, loss, out, pp_results>>

\* convert_tapjson_to_dvcjson(tap_json, dvc_json)
ConvertTapToDvc ==
    /\ pc = "tap2dvc"
    /\ LET r == convert_tapjson_to_dvcjson(file_src)
       IN  /\ err' = r.err
           /\ file_dst' = IF r.err = "none" THEN r.results ELSE file_dst
           /\ pc' = IF r.err = "none" THEN "dvc2tap" ELSE "tap_failed"
    /\ UNCHANGED <<opt, loader, out_json, file_src, l_id, log, loss, out, pp_results>>

\* convert_dvcjson_to_tapjson(dvc_json, tap_json)
ConvertDvcToTap ==
    /\ pc = "dvc2tap"
    /\ LET r == convert_dvcjson_to_tapjson(file_dst)
       IN  /\ err' = r.err
           /\ out_json' = IF r.err = "none" THEN r.results ELSE out_json
           /\ pc' = IF r.err = "none" THEN "tap_converted" ELSE "tap_failed"
    /\ UNCHANGED <<opt, loader, file_src, file_dst, l_id, log, loss, out, pp_results>>

NextConv == ConvertGtToTap \/ ConvertTapToGt \/ ConvertTapToDvc \/ ConvertDvcToTap

SpecConv == InitConv /\ [][NextConv]_vars

\* ------------------------------------------------- specification: selecting
\* Here a file is the whole JSON object: 'results' and the other top-level
\* fields.
SelectEvents ==
    [timestamp : Timestamps, sentence : {<<"a">>}, sentence_score : {-1},
     proposal_score : {1}, cl_score : {1}, pred_event_count : {1}]

SelectSlots(n) ==
    {[present |-> TRUE, list |-> v] : v \in [1..n -> SelectEvents]}
        \cup (IF n = 0 THEN {[present |-> FALSE, list |-> <<>>]} ELSE {})

\* what a selector can supply for one video: an index list, or nothing
SelectorLists ==
    {[present |-> TRUE, list |-> s] :
        s \in {<<>>, <<0>>, <<1, 0>>, <<0, 0>>, <<-1>>, <<2>>}}
        \cup {[present |-> FALSE, list |-> <<>>]}

\* selector_indices, given what the selector supplies for Videos[i]
SelectorIndices(s) == FileOf(s)

InitSelect ==
    /\ pc = "select"
    /\ \E ia \in SelectorLists : \E ib \in SelectorLists :
            opt = [selector_indices |-> SelectorIndices(<<ia, ib>>)]
    /\ loader = <<>>
    /\ out_json = <<>>
    /\ \E na \in 0..MaxEvents : \E sa \in SelectSlots(na) :
       \E nb \in 0..(MaxEvents - na) : \E sb \in SelectSlots(nb) :
            file_src = [results |-> FileOf(<<sa, sb>>),
                        version |-> "VERSION 1.0",
                        external_data |-> [used |-> TRUE, details |-> "None"]]
    /\ file_dst = NoFile
    /\ err = "none"
    /\ NoOrch

\* selecting(p_src, selector_indices): d is loaded from p_src, d['results'] is
\* replaced key by key, and d is saved to p_src + '_selector.json'
Select ==
    /\ pc = "select"
    /\ LET r == selecting(file_src.results, opt.selector_indices)
       IN  /\ err' = r.err
           /\ file_dst' = IF r.err = "none"
                          THEN [file_src EXCEPT !.results = r.results]
                          ELSE file_dst
           /\ pc' = IF r.err = "none" THEN "selected" ELSE "failed"
    /\ UNCHANGED <<opt, loader, out_json, file_src, l_id, log, loss, out, pp_results>>

NextSelect == Select

SpecSelect == InitSelect /\ [][NextSelect]_vars

\* --------------------------------- specification: caption_prediction indices
\* caption_prediction called with the match indices of a batch: the loop that
\* fills feat_bigids and cap_bigids.  Queries, captions and positions are
\* counted from 0 as in the program; sequences hold them from place 1.
CapBatchSizes == {1, 2, 3}  \* N_
GtCounts == {0, 1, 2}       \* gt_nums[i], ground-truth captions of a video

\* the matches (feat_ids, cap_ids) of a video of nq queries and ng captions:
\* pairs of distinct queries with distinct captions, in any order
MatchesOf(nq, ng) ==
    {[feat_ids |-> <<>>, cap_ids |-> <<>>]}
        \cup {[feat_ids |-> <<q>>, cap_ids |-> <<g>>] :
                    q \in 0..(nq - 1), g \in 0..(ng - 1)}
        \cup {x \in {[feat_ids |-> <<q1, q2>>, cap_ids |-> <<g1, g2>>] :
                        q1 \in 0..(nq - 1), q2 \in 0..(nq - 1),
                        g1 \in 0..(ng - 1), g2 \in 0..(ng - 1)} :
                    x.feat_ids[1] # x.feat_ids[2] /\ x.cap_ids[1] # x.cap_ids[2]}

\* one video of the batch: query_nums[i], gt_nums[i] and indices[i]
CapVideos ==
    UNION {{[query_num |-> nq, gt_num |-> ng, index |-> x] : x \in MatchesOf(nq, ng)} :
              nq \in 1..MaxQueries, ng \in GtCounts}

RECURSIVE SumLen(_)
\* sum([len(_[0]) for _ in indices])
SumLen(videos) ==
    IF videos = <<>> THEN 0
    ELSE Len(Head(videos).index.feat_ids) + SumLen(Tail(videos))

\* t[start : start + len(ids)] = offset + ids
SliceAssign(t, start, offset, ids) ==
    [p \in 1..Len(t) |->
        IF start < p /\ p <= start + Len(ids) THEN offset + ids[p - start] ELSE t[p]]

\* mutant: the offset advances by the number of matched pairs
AdvanceOffset_ByMatched(total, num, matched) == total + matched

\* total_query_ids += query_nums[i]; total_cap_ids += gt_nums[i]
AdvanceOffset(total, num, matched) == total + num

InitCap ==
    /\ pc = "cap_indices"
    /\ \E n \in CapBatchSizes : \E videos \in [1..n -> CapVideos] :
          /\ opt = [N_ |-> n, videos |-> videos]
          /\ out = [feat_bigids |-> [p \in 1..SumLen(videos) |-> 0],
                    cap_bigids |-> [p \in 1..SumLen(videos) |-> 0],
                    total_query_ids |-> 0, total_cap_ids |-> 0, total_ids |-> 0]
    /\ l_id = 0
    /\ err = "none"
    /\ log = <<>> /\ loss = <<>>
    /\ NoEval

\* one iteration of 'for i, index in enumerate(indices)'
CaptionIndices ==
    /\ pc = "cap_indices"
    /\ l_id < opt.N_
    /\ LET v == opt.videos[l_id + 1]
           feat_ids == v.index.feat_ids
           cap_ids == v.index.cap_ids
       IN  out' = [feat_bigids |-> SliceAssign(out.feat_bigids, out.total_ids,
                                              out.total_query_ids, feat_ids),
                   cap_bigids |-> SliceAssign(out.cap_bigids, out.total_ids,
                                             out.total_cap_ids, cap_ids),
                   total_query_ids |-> AdvanceOffset(out.total_query_ids,
                                                     v.query_num, Len(feat_ids)),
                   total_cap_ids |-> AdvanceOffset(out.total_cap_ids,
                                                   v.gt_num, Len(feat_ids)),
                   total_ids |-> out.total_ids + Len(feat_ids)]
    /\ l_id' = l_id + 1
    /\ pc' = IF l_id + 1 = opt.N_ THEN "cap_indexed" ELSE "cap_indices"
    /\ UNCHANGED <<opt, loader, out_json, file_src, file_dst, err, log, loss, pp_results>>

NextCap == CaptionIndices

SpecCap == InitCap /\ [][NextCap]_vars

\* ---------------------------------------------------- specification: build
LossCoefs == {0, 1, 2}

\* weight_dict as first written: the five loss terms and their coefficients
BaseWeightDict(args) ==
    [k \in {"loss_ce", "loss_bbox", "loss_giou", "loss_counter", "loss_caption"} |->
        CASE k = "loss_ce" -> args.cls_loss_coef
          [] k = "loss_bbox" -> args.bbox_loss_coef
          [] k = "loss_giou" -> args.giou_loss_coef
          [] k = "loss_counter" -> args.count_loss_coef
          [] k = "loss_caption" -> args.caption_loss_coef]

\* d.update(e)
DictMerge(d, e) ==
    [k \in DOMAIN d \cup DOMAIN e |-> IF k \in DOMAIN e THEN e[k] ELSE d[k]]

\* {k + f'_{i}': v for k, v in weight_dict.items()}
Suffixed(weight_dict, i) ==
    [x \in {k \o "_" \o ToString(i) : k \in DOMAIN weight_dict} |->
        weight_dict[CHOOSE k \in DOMAIN weight_dict : x = k \o "_" \o ToString(i)]]

\* mutant: one suffixed copy for every decoder layer
AuxRange_EveryLayer(dec_layers) == dec_layers

\* the number of passes of 'for i in range(args.dec_layers - 1)'
AuxRange(dec_layers) == IF dec_layers - 1 > 0 THEN dec_layers - 1 ELSE 0

\* aux_weight_dict after the loop over i
RECURSIVE AuxWeightDict(_, _)
AuxWeightDict(weight_dict, n) ==
    IF n = 0 THEN <<>>
    ELSE DictMerge(AuxWeightDict(weight_dict, n - 1), Suffixed(weight_dict, n - 1))

\* the weight_dict build hands to SetCriterion
BuildWeightDict(args) ==
    LET weight_dict == BaseWeightDict(args)
    IN  IF args.aux_loss
        THEN DictMerge(weight_dict, AuxWeightDict(weight_dict, AuxRange(args.dec_layers)))
        ELSE weight_dict

InitBuild ==
    /\ pc = "build"
    /\ opt \in [aux_loss : BOOLEAN, dec_layers : 1..MaxLayers,
                cls_loss_coef : LossCoefs, bbox_loss_coef : LossCoefs,
                giou_loss_coef : LossCoefs, count_loss_coef : LossCoefs,
                caption_loss_coef : LossCoefs]
    /\ out = <<>>
    /\ err = "none"
    /\ l_id = 0 /\ log = <<>> /\ loss = <<>>
    /\ NoEval

\* build: the weight mapping of the criterion
Build ==
    /\ pc = "build"
    /\ pc' = "built"
    /\ out' = BuildWeightDict(opt)
    /\ UNCHANGED <<opt, loader, out_json, file_src, file_dst, err, l_id, log, loss,
                   pp_results>>

NextBuild == Build

SpecBuild == InitBuild /\ [][NextBuild]_vars

\* --------------------------------------------------------------- claims
Min(a, b) == IF a < b THEN a ELSE b

Permuted(v, f) == [i \in 1..Len(v) |-> v[f[i]]]

\* C1: for every video of the file given to reranking whose n >= 1 events all
\* carry pred_event_count = K >= 1, the written list has exactly min(K, n)
\* events and is in non-decreasing order of timestamp[0].
C1_CountAndStartOrder ==
    pc = "reranked" =>
        \A k \in DOMAIN file_src :
            LET v == file_src[k]
                w == file_dst[k]
            IN  \A K \in EventCounts :
                    (Len(v) >= 1 /\ K >= 1
                        /\ \A i \in 1..Len(v) : v[i].pred_event_count = K)
                    => /\ Len(w) = Min(K, Len(v))
                       /\ \A i \in 1..(Len(w) - 1) :
                              w[i].timestamp[1] <= w[i + 1].timestamp[1]

\* C1 witness: a list longer than its K, later start first, was cut to K >= 2
\* events
C1_Witness ==
    /\ pc = "reranked"
    /\ \E k \in DOMAIN file_src :
          /\ Len(file_src[k]) > file_src[k][1].pred_event_count
          /\ file_src[k][1].timestamp[1] > file_src[k][2].timestamp[1]
          /\ Len(file_dst[k]) = 2
          /\ file_dst[k][1].timestamp[1] < file_dst[k][2].timestamp[1]

\* C2 (as stated): the list reranking writes for a video is the same for every
\* permutation of that video's input list, ties in joint score included.
C2_AnyPermutationSameList ==
    pc = "reranked" =>
        \A k \in DOMAIN file_src :
            \A f \in Permutations(1..Len(file_src[k])) :
                RerankVideo(Permuted(file_src[k], f), opt.alpha,
                            opt.cl_score_weight, opt.temperature) = file_dst[k]

JointOf(p) == JointScore(p, opt.alpha, opt.cl_score_weight, opt.temperature)

SameJoint(p, q) ==
    /\ ~FracLT(JointOf(p)[1], JointOf(p)[2], JointOf(q)[1], JointOf(q)[2])
    /\ ~FracLT(JointOf(q)[1], JointOf(q)[2], JointOf(p)[1], JointOf(p)[2])

NoJointTie(v) ==
    \A i, j \in 1..Len(v) : SameJoint(v[i], v[j]) => v[i] = v[j]

\* C2 (amended): the list reranking writes for a video is the same for every
\* permutation of that video's input list, provided no two different events
\* of the video have equal joint score.
C2_PermutationSameListNoTie ==
    pc = "reranked" =>
        \A k \in DOMAIN file_src :
            NoJointTie(file_src[k]) =>
                \A f \in Permutations(1..Len(file_src[k])) :
                    RerankVideo(Permuted(file_src[k], f), opt.alpha,
                                opt.cl_score_weight, opt.temperature) = file_dst[k]

\* C2 witness: three events of pairwise different joint score, the lowest
\* first, cut to fewer events
C2_Witness ==
    /\ pc = "reranked"
    /\ \E k \in DOMAIN file_src :
          LET v == file_src[k]
          IN  /\ Len(v) = 3
              /\ NoJointTie(v)
              /\ v[1] # v[2] /\ v[2] # v[3] /\ v[1] # v[3]
              /\ FracLT(JointOf(v[1])[1], JointOf(v[1])[2],
                        JointOf(v[3])[1], JointOf(v[3])[2])
              /\ Len(file_dst[k]) < 3

\* C3 (as stated): when evaluate has processed a video none of whose proposals
\* survived the filter, the run does not fail, that video is not in the written
\* results, and reranking and the metric evaluation complete.
C3_EmptyVideoDroppedRunCompletes ==
    pc \in {"done", "failed"} =>
        \A k \in DOMAIN out_json :
            out_json[k] = <<>> => (pc = "done" /\ k \notin DOMAIN file_src)

\* C4 (as stated): whenever evaluate runs with ranking-by-logit disabled,
\* selecting has an index list for every video of the saved results, so it
\* succeeds and evaluation proceeds to the metrics.
C4_SelectingSucceeds ==
    (pc \in {"done", "failed"} /\ ~RankingByLogit(opt)) =>
        (pc = "done" /\ err = "none")

\* which policy PDVC.forward runs
MatchedPolicy == ~(opt.eval_mode \/ opt.caption_loss_coef_zero)

Ended == pc \in {"returned", "failed"}

CaptionSteps == {i \in 1..Len(log) : log[i].phase = "caption"}

\* C5 (as stated): with auxiliary loss disabled, parallel_prediction_matched
\* returns; it ran one supervised caption pass, for the final layer; loss has the
\* unsuffixed keys loss_caption, loss_vis_cap and loss_text_cap and no suffixed
\* caption key; out's caption_probs and seq are those of that pass.
C5_NoAuxMatchedReturns ==
    (Ended /\ MatchedPolicy /\ ~opt.aux_loss) =>
        /\ pc = "returned"
        /\ Cardinality(CaptionSteps) = 1
        /\ \A i \in CaptionSteps : log[i].layer = opt.L - 1
        /\ {"loss_caption", "loss_vis_cap", "loss_text_cap"} \subseteq DOMAIN loss
        /\ \A key \in DOMAIN loss :
              loss[key].term \in {"loss_caption", "loss_vis_cap", "loss_text_cap"}
                  => key = loss[key].term
        /\ out.caption_probs = [phase |-> "caption", layer |-> opt.L - 1]

\* C6 (as stated): in every per-layer step of both policies, for any L >= 1, the
\* reference of layer 0 is the initial reference and the reference of layer
\* i > 0 is inter_references[i-1].
C6_LayerUsesPreviousReference ==
    \A i \in 1..Len(log) :
        log[i].reference =
            IF log[i].layer = 0 THEN [src |-> "init_reference", idx |-> 0]
            ELSE [src |-> "inter_references", idx |-> log[i].layer - 1]

C7_IndicesOfLayer(l) ==
    IF l = opt.L - 1 THEN [src |-> "last_indices", idx |-> 0]
    ELSE [src |-> "aux_indices", idx |-> l]

\* C7: in the matched policy every captioning call made before the criterion
\* has produced the match is of type 'none' with no indices, every supervised
\* captioning call is made after it and is passed the indices of its own layer
\* (last_indices[0] for L-1, aux_indices[l][0] below), and every loss_caption
\* entry comes from such a call.
C7_CaptionLossOnlyAfterMatch ==
    /\ \A i \in 1..Len(log) :
          log[i].policy = "matched" =>
              /\ ~log[i].matched =>
                    /\ log[i].captioner_type = "none"
                    /\ log[i].indices = [src |-> "None", idx |-> 0]
                    /\ log[i].phase = "pred"
              /\ log[i].phase = "caption" =>
                    /\ log[i].matched
                    /\ log[i].indices = C7_IndicesOfLayer(log[i].layer)
    /\ \A key \in DOMAIN loss :
          loss[key].term = "loss_caption" =>
              /\ loss[key].indices = C7_IndicesOfLayer(loss[key].layer)
              /\ \E i \in CaptionSteps :
                    /\ log[i].layer = loss[key].layer
                    /\ log[i].matched
                    /\ log[i].indices = loss[key].indices

\* C7 witness: the matched policy returned after caption losses of a final and
\* a non-final layer
C7_Witness ==
    /\ pc = "returned"
    /\ MatchedPolicy
    /\ opt.L >= 2
    /\ {"loss_caption", "loss_caption_0"} \subseteq DOMAIN loss
    /\ loss["loss_caption_0"].indices = [src |-> "aux_indices", idx |-> 0]
    /\ loss["loss_caption"].indices = [src |-> "last_indices", idx |-> 0]

\* C8: every loss term the orchestration adds for layer l is under
\* name + '_' + l when l < L-1 and under the bare name when l = L-1, so a
\* bare-named key never holds a non-final layer's value; when the matched
\* policy returns, the bare caption keys hold the final layer's values.
C8_LayerSuffixedKeys ==
    /\ \A key \in DOMAIN loss :
          /\ loss[key].layer < opt.L - 1 =>
                key = loss[key].term \o "_" \o ToString(loss[key].layer)
          /\ loss[key].layer = opt.L - 1 => key = loss[key].term
          /\ key \in {"loss_caption", "loss_vis_cap", "loss_text_cap",
                       "contrastive_loss"} => loss[key].layer = opt.L - 1
    /\ (pc = "returned" /\ MatchedPolicy) =>
          \A k \in {"loss_caption", "loss_vis_cap", "loss_text_cap"} :
              k \in DOMAIN loss /\ loss[k].layer = opt.L - 1

\* C8 witness: a run of three layers returned with suffixed and bare keys
C8_Witness ==
    /\ pc = "returned"
    /\ opt.L = 3
    /\ {"contrastive_loss_0", "contrastive_loss_1", "contrastive_loss"}
            \subseteq DOMAIN loss
    /\ loss["contrastive_loss_1"].layer = 1
    /\ loss["contrastive_loss"].layer = 2

\* C9 (as stated): in the full policy with contrastive learning enabled, a
\* contrastive loss is computed for every layer 0..L-1 with that layer's own
\* match indices, whether auxiliary loss is enabled or disabled, for any L >= 1.
C9_ContrastiveLossEveryLayer ==
    (Ended /\ ~MatchedPolicy /\ opt.enable_contrastive) =>
        /\ pc = "returned"
        /\ \A l \in 0..(opt.L - 1) :
              \E key \in DOMAIN loss :
                  /\ loss[key].term = "contrastive_loss"
                  /\ loss[key].layer = l
                  /\ loss[key].indices = C7_IndicesOfLayer(l)

\* C10 (as stated): with caption decoder type 'none' a forward pass through the
\* matched policy completes and every loss_caption entry of the returned loss
\* is zero (the value the 'none' type produces).
C10_NoneTypeMatchedCompletes ==
    (Ended /\ MatchedPolicy /\ opt.caption_decoder_type = "none") =>
        /\ pc = "returned"
        /\ \A key \in DOMAIN loss :
              loss[key].term = "loss_caption" => loss[key].captioner_type = "none"

\* the videos of the batch PostProcess was given, as positions 1..N
PostVideos == 1..out.N

\* the clipped, scaled segment of query q (from 0) of the video at position i
SegmentOf(i, q) ==
    LET c == out.pred_boxes[i][q + 1][1]
        h == out.pred_boxes[i][q + 1][2] \div 2
        lo == IF c - h < 0 THEN 0 ELSE IF c - h > 10 THEN 10 ELSE c - h
        hi == IF c + h < 0 THEN 0 ELSE IF c + h > 10 THEN 10 ELSE c + h
    IN  <<lo * Durations[i], hi * Durations[i]>>

\* the caption the model sampled for query q of the video at position i
CaptionOf(i, q) ==
    IF out.seq_kind = "gpt2" THEN out.gpt2_cap[(i - 1) * out.N_q + q + 1]
    ELSE <<"rtranslate", out.seq[i][q + 1]>>

\* the sum of the log-probabilities of the non-padding positions of the
\* sequence sampled for query q of the video at position i
CaptionScoreOf(i, q) ==
    LET on == IF out.seq_kind = "gpt2" THEN out.gen_mask[i][q + 1]
              ELSE [t \in 1..2 |-> IF out.seq[i][q + 1][t] > 0 THEN 1 ELSE 0]
        lp == out.cap_prob_eval[i][q + 1]
    IN  on[1] * lp[1] + on[2] * lp[2]

\* C11 (as stated): with ranking-by-logit disabled, for every video and every
\* j in 0..N_q-1, result entry j has query_id j and carries query j's segment,
\* caption and caption score, for any number of classes.
C11_PassThroughInOrder ==
    (pc = "postprocessed" /\ ~opt.enable_ranking_by_logit) =>
        \A i \in PostVideos : \A j \in 1..out.N_q :
            /\ pp_results[i].query_id[j] = j - 1
            /\ pp_results[i].boxes[j] = SegmentOf(i, j - 1)
            /\ out.seq_kind # "noseq" =>
                  /\ pp_results[i].captions[j] = CaptionOf(i, j - 1)
                  /\ pp_results[i].caption_scores[j] = CaptionScoreOf(i, j - 1)

\* the sigmoid value of the (query, class) pair of flat index r of video i
PairScore(i, r) ==
    LET x == out.pred_logits[i][r + 1]
    IN  CASE x = -3 -> 47 [] x = -2 -> 119 [] x = -1 -> 269 [] x = 0 -> 500
          [] x = 1 -> 731 [] x = 2 -> 881 [] x = 3 -> 953

\* C12: with ranking-by-logit enabled, every video's result has exactly N_q
\* entries in non-increasing score order, the scores being the N_q largest
\* sigmoid values over all N_q x N_class (query, class) pairs, each pair taken
\* at most once; each entry's query_id is raw_idx div N_class and its label is
\* raw_idx mod N_class.
C12_TopPairsByScore ==
    (pc = "postprocessed" /\ opt.enable_ranking_by_logit) =>
        \A i \in PostVideos :
            LET res == pp_results[i]
                n == out.N_q
                pairs == 0..(out.N_q * out.N_class - 1)
                chosen == {res.raw_idx[j] : j \in 1..n}
            IN  /\ Len(res.scores) = n /\ Len(res.raw_idx) = n
                /\ Len(res.query_id) = n /\ Len(res.labels) = n
                /\ chosen \subseteq pairs
                /\ Cardinality(chosen) = n
                /\ \A j \in 1..n : res.scores[j] = PairScore(i, res.raw_idx[j])
                /\ \A j \in 1..(n - 1) : res.scores[j] >= res.scores[j + 1]
                /\ \A r \in pairs \ chosen :
                      \A j \in 1..n : PairScore(i, r) <= res.scores[j]
                /\ \A j \in 1..n :
                      /\ res.query_id[j] = res.raw_idx[j] \div out.N_class
                      /\ res.labels[j] = res.raw_idx[j] % out.N_class

\* C12 witness: a higher-scored later pair came first, and one query fills two
\* entries with different labels
C12_Witness ==
    /\ pc = "postprocessed"
    /\ opt.enable_ranking_by_logit
    /\ out.N_class = 2
    /\ out.N_q >= 2
    /\ \E i \in PostVideos :
          /\ pp_results[i].raw_idx[1] > pp_results[i].raw_idx[2]
          /\ pp_results[i].scores[1] > pp_results[i].scores[2]
          /\ pp_results[i].query_id[1] = pp_results[i].query_id[2]
          /\ pp_results[i].labels[1] # pp_results[i].labels[2]

\* C13 (as stated): for every entry PostProcess returns, with a vocabulary
\* decoder or with gpt2 and under any ranking order, the caption is that of the
\* entry's query_id and the caption score is the sum of the log-probabilities
\* over the non-padding positions of that same query's sampled sequence.
C13_CaptionScoreOfSameQuery ==
    (pc = "postprocessed" /\ out.seq_kind # "noseq") =>
        \A i \in PostVideos : \A j \in 1..out.N_q :
            /\ pp_results[i].captions[j] = CaptionOf(i, pp_results[i].query_id[j])
            /\ pp_results[i].caption_scores[j] =
                    CaptionScoreOf(i, pp_results[i].query_id[j])

MatchingScore == opt.enable_contrastive /\ opt.eval_enable_matching_score

\* C14 (as stated): with contrastive inference scoring enabled PostProcess
\* returns, the cl_score of entry j of video i is the cosine of the text
\* embedding of entry j's caption and the event embedding of the query entry j
\* refers to (its query_id), for any number of classes, and scores, labels and
\* boxes are what they are without it; with it disabled every cl_score is 0.
C14_ClScoreOfEntryQuery ==
    pc \in {"postprocessed", "failed"} =>
        /\ pc = "postprocessed"
        /\ \A i \in PostVideos :
              LET res == pp_results[i]
                  plain == PostProcessVideo(out, i, res.raw_idx,
                                            opt.enable_ranking_by_logit, FALSE).result
              IN  /\ res.scores = plain.scores
                  /\ res.labels = plain.labels
                  /\ res.boxes = plain.boxes
                  /\ \A j \in 1..out.N_q :
                        res.cl_scores[j] =
                            IF MatchingScore
                            THEN Cosine(text_encoding(res.captions[j]),
                                        out.event_embed[i][res.query_id[j] + 1])
                            ELSE <<0, 1>>

GtRoundTripEnded == pc \in {"gt_converted", "gt_failed"}

\* C15 (as stated): for any ground-truth file, convert_gtjson_to_tapjson
\* followed by convert_tapjson_to_gtjson yields, for every video, the same
\* video key with the same timestamps and the same sentences, pairwise aligned
\* as in the input.
C15_RoundTripSameVideos ==
    GtRoundTripEnded =>
        /\ pc = "gt_converted"
        /\ DictKeys(out_json) = DictKeys(file_src)
        /\ \A k \in DictKeys(file_src) :
              /\ DictGet(out_json, k).timestamps = DictGet(file_src, k).timestamps
              /\ DictGet(out_json, k).sentences = DictGet(file_src, k).sentences

\* w is v in non-decreasing order of start, equal starts in the order of v
StablyOrderedByStart(v, w) ==
    /\ Len(w) = Len(v)
    /\ \E f \in Permutations(1..Len(v)) :
          /\ \A i \in 1..Len(v) : w[i] = v[f[i]]
          /\ \A i, j \in 1..Len(v) :
                i < j => \/ v[f[i]][1] < v[f[j]][1]
                         \/ (v[f[i]][1] = v[f[j]][1] /\ f[i] < f[j])

\* C15 (amended): for a ground-truth file whose video keys all start with
\* "v_" and whose videos that have a timestamp are all in the reference file,
\* the round trip yields, for every video, the same video key with the same
\* timestamps in non-decreasing order of start (equal starts in input order)
\* and, in place of the input's sentences, the placeholder 'None None' once
\* for every timestamp.
C15_RoundTripSortedPlaceholders ==
    (/\ GtRoundTripEnded
     /\ \A k \in DictKeys(file_src) : Len(k) >= 2 /\ k[1] = "v" /\ k[2] = "_"
     /\ \A k \in DictKeys(file_src) :
            DictGet(file_src, k).timestamps # <<>> => k \in DOMAIN opt.reference)
    =>  /\ pc = "gt_converted"
        /\ DictKeys(out_json) = DictKeys(file_src)
        /\ \A k \in DictKeys(file_src) :
              /\ StablyOrderedByStart(DictGet(file_src, k).timestamps,
                                      DictGet(out_json, k).timestamps)
              /\ DictGet(out_json, k).sentences =
                    [i \in 1..Len(DictGet(file_src, k).timestamps) |-> "None None"]

\* C15 witness: two videos went round, one with a later start first
C15_Witness ==
    /\ pc = "gt_converted"
    /\ Len(file_src) = 2
    /\ DictKeys(out_json) = DictKeys(file_src)
    /\ \E k \in DictKeys(file_src) :
          LET v == DictGet(file_src, k).timestamps
              w == DictGet(out_json, k).timestamps
          IN  /\ Len(v) = 2
              /\ v[1][1] > v[2][1]
              /\ w = <<v[2], v[1]>>

\* C16 (as stated): for any detection-style file whose events carry segment,
\* score and sentence, with any set of distinct video names,
\* convert_tapjson_to_dvcjson followed by convert_dvcjson_to_tapjson returns
\* the same set of video keys and, for every video, the same number and order
\* of events with the same segment, score and sentence; sentence_score is 0
\* where the input had none.
C16_TapDvcTapSameEvents ==
    pc \in {"tap_converted", "tap_failed"} =>
        /\ pc = "tap_converted"
        /\ DictKeys(out_json) = DictKeys(file_src)
        /\ \A k \in DictKeys(file_src) :
              LET v == DictGet(file_src, k)
                  w == DictGet(out_json, k)
              IN  /\ Len(w) = Len(v)
                  /\ \A i \in 1..Len(v) :
                        /\ w[i].segment = v[i].segment
                        /\ w[i].score = v[i].score
                        /\ w[i].sentence = v[i].sentence
                        /\ w[i].sentence_score =
                              IF "sentence_score" \in DOMAIN v[i]
                              THEN v[i].sentence_score ELSE 0

\* C17: PDVC.forward runs the full policy exactly when eval_mode is true or
\* opt.caption_loss_coef is 0 and the matched policy otherwise: every step
\* taken is a step of that one policy, and a forward call that has ended has
\* run it.
C17_PolicyByMode ==
    LET full == opt.eval_mode \/ opt.caption_loss_coef_zero
    IN  /\ \A i \in 1..Len(log) :
              log[i].policy = IF full THEN "full" ELSE "matched"
        /\ pc \in {"full_pred", "full_criterion", "full_cl"} => full
        /\ pc \in {"matched_pred", "matched_criterion", "matched_caption",
                    "matched_last"} => ~full
        /\ pc \in {"returned", "failed"} => Len(log) >= 1

\* C17 witness: a training-mode call with caption_loss_coef = 0 returned from
\* the full policy
C17_Witness ==
    /\ pc = "returned"
    /\ ~opt.eval_mode
    /\ opt.caption_loss_coef_zero
    /\ Len(log) = opt.L
    /\ log[1].policy = "full"

\* C18: in both policies, in the out dict the criterion is invoked with, every
\* collected output key holds the value of layer L-1; with auxiliary loss
\* enabled out['aux_outputs'] is a list of exactly L-1 dicts, the j-th having
\* exactly the collected keys and holding layer j's value for each; with
\* auxiliary loss disabled out has no 'aux_outputs' key.
C18_AssembledOutputs ==
    out.matched =>
        LET d == out.criterion_out
            keys == DOMAIN d \ {"aux_outputs", "memory"}
        IN  /\ {"pred_logits", "pred_count", "pred_boxes", "caption_probs", "seq",
                 "cl_match_mats"} \subseteq keys
            /\ \A k \in keys : d[k] = [key |-> k, layer |-> opt.L - 1]
            /\ ~opt.aux_loss => "aux_outputs" \notin DOMAIN d
            /\ opt.aux_loss =>
                  /\ "aux_outputs" \in DOMAIN d
                  /\ Len(d["aux_outputs"]) = opt.L - 1
                  /\ \A j \in 1..(opt.L - 1) :
                        /\ DOMAIN d["aux_outputs"][j] = keys
                        /\ \A k \in keys :
                              d["aux_outputs"][j][k] = [key |-> k, layer |-> j - 1]

\* C18 witness: both policies reached the criterion with three layers and
\* auxiliary loss, here the matched one
C18_Witness ==
    /\ out.matched
    /\ opt.aux_loss
    /\ opt.L = 3
    /\ ~(opt.eval_mode \/ opt.caption_loss_coef_zero)
    /\ Len(out.criterion_out["aux_outputs"]) = 2
    /\ out.criterion_out["aux_outputs"][2]["seq"] = [key |-> "seq", layer |-> 1]

\* the number of times the event x is in the list v
CountIn(x, v) == Cardinality({i \in 1..Len(v) : v[i] = x})

\* the joint score the event p is to have, as <<numerator, denominator>>:
\* alpha * sentence_score / (words ^ temperature + 1e-5) + proposal_score
\*   + cl_score_weight * cl_score, with alpha in tenths and 1e-5 = 1 / 100000
C19_Joint(p) ==
    LET words == Len(p.sentence)
        power == IF opt.temperature = 0 THEN 1
                 ELSE IF opt.temperature = 1 THEN words
                 ELSE words * words
        d == power * 100000 + 1
    IN  <<opt.alpha * p.sentence_score * 100000
            + 10 * (p.proposal_score + opt.cl_score_weight * p.cl_score) * d,
          10 * d>>

C19_LE(a, b) == ~FracLT(b[1], b[2], a[1], a[2])

\* C19: in the file reranking writes, every event carries the joint score
\* alpha * sentence_score / (word_count^temperature + 1e-5) + proposal_score
\* + cl_score_weight * cl_score, whose denominator is positive also for an
\* empty sentence, and every event kept has a joint score greater than or
\* equal to that of every event of the same video that was discarded.
C19_JointScoreAndCut ==
    pc = "reranked" =>
        \A k \in DOMAIN file_src :
            LET v == file_src[k]
                w == file_dst[k]
            IN  /\ \A j \in 1..Len(w) :
                      LET p == [f \in DOMAIN w[j] \ {"joint_score"} |-> w[j][f]]
                      IN  /\ CountIn(p, v) >= 1
                          /\ w[j].joint_score[2] > 0
                          /\ C19_LE(w[j].joint_score, C19_Joint(p))
                          /\ C19_LE(C19_Joint(p), w[j].joint_score)
                /\ \A i \in 1..Len(v) :
                      CountIn(v[i], v) >
                            Cardinality({j \in 1..Len(w) :
                                \A f \in DOMAIN v[i] : w[j][f] = v[i][f]})
                      => \A j \in 1..Len(w) :
                            C19_LE(C19_Joint(v[i]), w[j].joint_score)

\* C19 witness: an event with an empty sentence was kept and an event of
\* strictly lower joint score was discarded
C19_Witness ==
    /\ pc = "reranked"
    /\ opt.temperature = 2
    /\ opt.alpha > 0
    /\ \E k \in DOMAIN file_src :
          /\ \E j \in 1..Len(file_dst[k]) : file_dst[k][j].sentence = <<>>
          /\ Len(file_dst[k]) < Len(file_src[k])
          /\ \E i \in 1..Len(file_src[k]) : \E j \in 1..Len(file_dst[k]) :
                FracLT(C19_Joint(file_src[k][i])[1], C19_Joint(file_src[k][i])[2],
                       file_dst[k][j].joint_score[1], file_dst[k][j].joint_score[2])

\* C20: for every video key k of the prediction file, selecting writes for k
\* exactly the list [v[i] for i in selector_indices[k]]: as long as the index
\* list and in its order, a repeated index giving a repeated event, the events
\* unmodified, every other top-level field unchanged; it writes another file
\* and leaves the source file as it was.
C20_SelectsListedEvents ==
    /\ [](pc = "selected" =>
            /\ DOMAIN file_dst = DOMAIN file_src
            /\ \A f \in DOMAIN file_src \ {"results"} : file_dst[f] = file_src[f]
            /\ DOMAIN file_dst.results = DOMAIN file_src.results
            /\ \A k \in DOMAIN file_src.results :
                  LET v == file_src.results[k]
                      indices == opt.selector_indices[k]
                      w == file_dst.results[k]
                  IN  /\ Len(w) = Len(indices)
                      /\ \A j \in 1..Len(indices) :
                            w[j] = v[IF indices[j] >= 0 THEN indices[j] + 1
                                     ELSE Len(v) + indices[j] + 1])
    /\ [][file_src' = file_src]_vars

\* C20 witness: one video's events were written in reverse order and another
\* video's event twice
C20_Witness ==
    /\ pc = "selected"
    /\ \E k \in DOMAIN file_src.results :
          /\ opt.selector_indices[k] = <<1, 0>>
          /\ file_src.results[k][1] # file_src.results[k][2]
          /\ file_dst.results[k] = <<file_src.results[k][2], file_src.results[k][1]>>
    /\ \E k \in DOMAIN file_src.results :
          /\ opt.selector_indices[k] = <<0, 0>>
          /\ Len(file_dst.results[k]) = 2

\* the start-end form of the center-length box of query q (from 0) of the
\* video at position i, before any clipping, in tenths
RawSegmentOf(i, q) ==
    <<out.pred_boxes[i][q + 1][1] - (out.pred_boxes[i][q + 1][2] \div 2),
      out.pred_boxes[i][q + 1][1] + (out.pred_boxes[i][q + 1][2] \div 2)>>

\* x limited to [0, 1], in tenths
ClampUnit(x) == IF x < 0 THEN 0 ELSE IF x > 10 THEN 10 ELSE x

\* C21: every segment PostProcess returns is the start-end form of the box of
\* the entry's query (its query_id), each coordinate clipped to [0, 1] and then
\* multiplied by the video's duration, so both coordinates lie in
\* [0, duration] of the entry's own video.
C21_SegmentClippedThenScaled ==
    pc = "postprocessed" =>
        \A i \in PostVideos : \A j \in 1..out.N_q :
            LET e == pp_results[i]
                raw == RawSegmentOf(i, e.query_id[j])
            IN  /\ e.boxes[j] = <<ClampUnit(raw[1]) * e.vid_duration,
                                  ClampUnit(raw[2]) * e.vid_duration>>
                /\ e.vid_duration = Durations[i]
                /\ \A t \in 1..2 : /\ e.boxes[j][t] >= 0
                                    /\ e.boxes[j][t] <= 10 * Durations[i]

\* C21 witness: a returned batch of two videos with different durations in
\* which one selected box starts before 0 and another ends after 1.
C21_Witness ==
    /\ pc = "postprocessed"
    /\ out.N = 2
    /\ Durations[1] # Durations[2]
    /\ \E j \in 1..out.N_q : RawSegmentOf(1, pp_results[1].query_id[j])[1] < 0
    /\ \E j \in 1..out.N_q : RawSegmentOf(2, pp_results[2].query_id[j])[2] > 10

\* C22 (as stated): the raw_boxes entry recorded for each returned event is
\* the pre-clip start-end segment of that event's query, not scaled by the
\* duration.
C22_RawBoxIsPreClip ==
    pc = "postprocessed" =>
        \A i \in PostVideos : \A j \in 1..out.N_q :
            pp_results[i].raw_boxes[j] = RawSegmentOf(i, pp_results[i].query_id[j])
\* the list [raw] * (L - 1) + [context], raw and context being entries 0 and 1
\* of the text encoder's list
BroadcastText == [j \in 1..opt.L |-> IF j < opt.L THEN 0 ELSE 1]

\* C23 (as stated): with contrastive learning on, a text-embedding list of
\* exactly 2 entries with L > 2 is replaced, by the time a layer's prediction
\* is done, by the list of length L with raw in the first L-1 places and
\* context in the last, and stays so; with any other length different from L
\* no layer's prediction is completed and the pass ends in a failure; a
\* similarity matrix is only ever computed from a list of length L.
C23_PadTwoOrStop ==
    opt.enable_contrastive =>
        /\ (opt.text_len = 2 /\ opt.L > 2 /\ Len(out.coords) >= 1) =>
                out.text_embed = BroadcastText
        /\ (opt.text_len # opt.L /\ ~(opt.text_len = 2 /\ opt.L > 2)) =>
                /\ Len(out.coords) = 0
                /\ pc # "returned"
        /\ \A l \in 1..Len(out.cl_text) :
                out.cl_text[l] # -1 =>
                    /\ Len(out.text_embed) = opt.L
                    /\ out.cl_text[l] = out.text_embed[l]

\* C24 (as stated): in the matched policy with contrastive learning on and a
\* text-embedding list of length L or of the 2 entries [raw, context], every
\* call of the contrastive criterion for a layer l is handed entry l of a list
\* of length L (raw for l < L-1 and context for L-1 where the list had 2
\* entries), whatever set_cost_cl is; and a pass that returns has made the call
\* for every layer 0..L-1.
C24_CriterionGetsLayerText ==
    (/\ MatchedPolicy
     /\ opt.enable_contrastive
     /\ (opt.text_len = opt.L \/ (opt.text_len = 2 /\ opt.L > 2))) =>
        /\ \A c \in 1..Len(out.cl_calls) :
              /\ Len(out.text_embed) = opt.L
              /\ out.cl_calls[c].text_embed =
                    IF opt.text_len = opt.L THEN out.cl_calls[c].layer
                    ELSE BroadcastText[out.cl_calls[c].layer + 1]
        /\ pc = "returned" =>
              \A l \in 0..(opt.L - 1) :
                  \E c \in 1..Len(out.cl_calls) : out.cl_calls[c].layer = l
\* C25: in the full policy, for every layer whose prediction was made, the
\* caption head was invoked with the configured decoder type if the layer is
\* L-1 and disable_captioning is false and with 'none' otherwise; every
\* invocation with 'none' sampled nothing and returned zeros of shape
\* (N, N_q, 3) for both cap_prob_eval and seq.
C25_CaptionOnlyLastLayer ==
    /\ \A i \in 1..Len(log) :
          log[i].policy = "full" =>
              log[i].captioner_type =
                  IF log[i].layer = opt.L - 1 /\ ~opt.disable_captioning
                  THEN opt.caption_decoder_type ELSE "none"
    /\ \A l \in 1..Len(out.cap_evals) :
          LET none == l - 1 < opt.L - 1 \/ opt.disable_captioning
                          \/ opt.caption_decoder_type = "none"
              c == out.cap_evals[l]
          IN  /\ c.sampled = ~none
              /\ none =>
                    /\ Len(c.seq) = opt.N /\ Len(c.cap_prob_eval) = opt.N
                    /\ \A i \in 1..opt.N :
                          /\ Len(c.seq[i]) = opt.N_q
                          /\ Len(c.cap_prob_eval[i]) = opt.N_q
                          /\ \A q \in 1..opt.N_q :
                                /\ c.seq[i][q] = <<0, 0, 0>>
                                /\ c.cap_prob_eval[i][q] = <<0, 0, 0>>

\* C25 witness: the full policy returned from three layers of two videos: the
\* first two layers did not sample and the last one did.
C25_Witness ==
    /\ pc = "returned"
    /\ opt.L = 3 /\ opt.N = 2
    /\ Len(out.cap_evals) = 3
    /\ ~out.cap_evals[1].sampled /\ ~out.cap_evals[2].sampled
    /\ out.cap_evals[3].sampled
    /\ log[3].captioner_type # "none"

\* the reference tensor of layer l (from 0): the initial reference for layer
\* 0, inter_references[l-1] above
C26_Reference(l) ==
    ReferenceValue(IF l = 0 THEN [src |-> "init_reference", idx |-> 0]
                   ELSE [src |-> "inter_references", idx |-> l - 1], opt.ref_dim)

\* C26: in both policies, with iterative refinement disabled the predicted
\* segment of every layer is that layer's reference; with it enabled it is the
\* sigmoid of the box head's output plus the inverse sigmoid of the reference,
\* added on both coordinates for a reference of 2 components and on the first
\* only for one of 1 component; with it enabled and a reference of another
\* size no layer is predicted and the pass ends in an assertion failure.
C26_RefineOrReference ==
    /\ \A l \in 1..Len(out.coords) :
          LET ref == C26_Reference(l - 1)
              tmp == BboxHead(l - 1)
          IN  /\ opt.disable_iterative_refine => out.coords[l] = ref
              /\ (~opt.disable_iterative_refine /\ opt.ref_dim = 2) =>
                    out.coords[l] = <<Sigmoid(tmp[1] + inverse_sigmoid(ref[1])),
                                      Sigmoid(tmp[2] + inverse_sigmoid(ref[2]))>>
              /\ (~opt.disable_iterative_refine /\ opt.ref_dim = 1) =>
                    out.coords[l] = <<Sigmoid(tmp[1] + inverse_sigmoid(ref[1])),
                                      Sigmoid(tmp[2])>>
    /\ (~opt.disable_iterative_refine /\ opt.ref_dim \notin {1, 2}) =>
          /\ Len(out.coords) = 0
          /\ pc # "returned"
          /\ pc = "failed" => err = "AssertionError"
    /\ pc = "returned" => Len(out.coords) = opt.L

\* C26 witness: the matched policy returned from two refined layers with a
\* reference of one component
C26_Witness ==
    /\ pc = "returned"
    /\ MatchedPolicy
    /\ ~opt.disable_iterative_refine
    /\ opt.ref_dim = 1
    /\ opt.L = 2
    /\ Len(out.coords) = 2
    /\ out.coords[2] # C26_Reference(1)
\* the coefficient build is given for the loss term k
C27_Coef(k) ==
    CASE k = "loss_ce" -> opt.cls_loss_coef
      [] k = "loss_bbox" -> opt.bbox_loss_coef
      [] k = "loss_giou" -> opt.giou_loss_coef
      [] k = "loss_counter" -> opt.count_loss_coef
      [] k = "loss_caption" -> opt.caption_loss_coef

\* C27: the weight mapping build makes has, with aux_loss and dec_layers = L,
\* exactly the keys loss_ce, loss_bbox, loss_giou, loss_counter, loss_caption
\* and k_i for each of them and every i in 0..L-2, with weight(k_i) =
\* weight(k) = the coefficient of k; without aux_loss exactly the five keys.
C27_WeightKeys ==
    pc = "built" =>
        LET base == {"loss_ce", "loss_bbox", "loss_giou", "loss_counter",
                     "loss_caption"}
            layers == IF opt.aux_loss THEN 0..(opt.dec_layers - 2) ELSE {}
        IN  /\ DOMAIN out =
                  base \cup {k \o "_" \o ToString(i) : k \in base, i \in layers}
            /\ \A k \in base :
                  /\ out[k] = C27_Coef(k)
                  /\ \A i \in layers : out[k \o "_" \o ToString(i)] = out[k]

\* C27 witness: built with aux_loss for three layers and five coefficients not
\* all equal: loss_caption_1 is a key and loss_caption_2 is not
C27_Witness ==
    /\ pc = "built"
    /\ opt.aux_loss
    /\ opt.dec_layers = 3
    /\ opt.caption_loss_coef # opt.cls_loss_coef
    /\ "loss_caption_1" \in DOMAIN out
    /\ "loss_caption_2" \notin DOMAIN out
    /\ out["loss_caption_1"] = opt.caption_loss_coef
\* the count logits the model gave for the video k
C28_CountRow(k) == log[CHOOSE i \in 1..Len(log) : log[i].video_key = k].pred_count

\* the index, from 0, of the first largest entry of row, raised to 1 when 0
C28_Count(row) ==
    LET first == CHOOSE a \in 1..Len(row) :
                    /\ \A b \in 1..Len(row) : row[b] <= row[a]
                    /\ \A b \in 1..(a - 1) : row[b] < row[a]
    IN  IF first - 1 < 1 THEN 1 ELSE first - 1

\* C28: the event count attached to a video's events is the argmax of the
\* video's count logits (max_eseq_length + 1 of them) raised to at least 1,
\* so it is between 1 and max_eseq_length; and when reranking has run on the
\* written file, every video whose list had events still has at least one.
C28_CountAtLeastOne ==
    /\ \A k \in DOMAIN out_json : \A i \in 1..Len(out_json[k]) :
          /\ out_json[k][i].pred_event_count = C28_Count(C28_CountRow(k))
          /\ out_json[k][i].pred_event_count >= 1
          /\ out_json[k][i].pred_event_count <= Len(C28_CountRow(k)) - 1
    /\ (pc = "done" /\ opt.count_loss_coef_pos /\ RankingByLogit(opt)) =>
          \A k \in DOMAIN file_src :
              Len(file_src[k]) >= 1 =>
                  /\ k \in DOMAIN file_dst
                  /\ Len(file_dst[k]) >= 1

\* C28 witness: reranking has run on a file with a video of two events whose
\* count logits have their largest value at index 0; one event is kept
C28_Witness ==
    /\ pc = "done"
    /\ opt.count_loss_coef_pos /\ RankingByLogit(opt)
    /\ \E k \in DOMAIN file_src :
          /\ Len(file_src[k]) = 2
          /\ C28_CountRow(k)[1] >= C28_CountRow(k)[2]
          /\ \A b \in 1..Len(C28_CountRow(k)) : C28_CountRow(k)[b] <= C28_CountRow(k)[1]
          /\ Len(file_dst[k]) = 1
\* the sum of f over the videos at places 1..n of the batch
RECURSIVE C29_Before(_, _)
C29_Before(f, n) == IF n = 0 THEN 0 ELSE f[n] + C29_Before(f, n - 1)

C29_QueryNums == [i \in 1..opt.N_ |-> opt.videos[i].query_num]
C29_GtNums == [i \in 1..opt.N_ |-> opt.videos[i].gt_num]
C29_MatchSizes == [i \in 1..opt.N_ |-> Len(opt.videos[i].index.feat_ids)]

\* C29: when caption_prediction has filled the flattened indices, the k-th
\* matched pair (q, g) of the video at place i is at position (pairs of the
\* videos before i) + k, its feature index is (queries of the videos before
\* i) + q and its caption index (captions of the videos before i) + g; a
\* video with an empty match takes no position and still counts in both
\* sums; the number of positions is the sum of the match sizes.
C29_FlattenedPairs ==
    pc = "cap_indexed" =>
        /\ Len(out.feat_bigids) = C29_Before(C29_MatchSizes, opt.N_)
        /\ Len(out.cap_bigids) = C29_Before(C29_MatchSizes, opt.N_)
        /\ \A i \in 1..opt.N_ : \A k \in 1..C29_MatchSizes[i] :
              LET pos == C29_Before(C29_MatchSizes, i - 1) + k
              IN  /\ out.feat_bigids[pos] =
                        C29_Before(C29_QueryNums, i - 1)
                            + opt.videos[i].index.feat_ids[k]
                  /\ out.cap_bigids[pos] =
                        C29_Before(C29_GtNums, i - 1)
                            + opt.videos[i].index.cap_ids[k]

\* C29 witness: three videos, the second with queries and captions and an
\* empty match, the third with a matched pair whose indices are shifted by
\* the counts of the first two
C29_Witness ==
    /\ pc = "cap_indexed"
    /\ opt.N_ = 3
    /\ C29_MatchSizes[1] = 1 /\ C29_MatchSizes[2] = 0 /\ C29_MatchSizes[3] >= 1
    /\ opt.videos[1].query_num = 2
    /\ opt.videos[2].query_num = 2 /\ opt.videos[2].gt_num = 1
    /\ out.feat_bigids[2] = 4 + opt.videos[3].index.feat_ids[1]
    /\ out.cap_bigids[2] = opt.videos[1].gt_num + 1 + opt.videos[3].index.cap_ids[1]
====
